---- MODULE Spec2Model ----
(***************************************************************************)
(* Authentication and multi-factor session core of FinanceManager:         *)
(* internal/auth (service, JWT manager, session manager, refresh-token     *)
(* middleware, two-factor repository) and internal/user (password change,  *)
(* registration verification, one-time-code mailbox repository).           *)
(*                                                                         *)
(* Time is counted in seconds (JWT claims are Unix seconds).  Random       *)
(* values (session tokens, rotating secrets, TOTP secrets) are fresh       *)
(* values drawn from counters; one-time codes are drawn from a small set,  *)
(* so that a newly generated code may or may not equal the previous one.   *)
(***************************************************************************)
EXTENDS Integers, Sequences, FiniteSets, TLC

VARIABLES
    users,      \* table users: id -> row
    mailbox,    \* table user_email_verification_codes: id -> row (at most one per user)
    secrets,    \* table user_two_factor_secrets: id -> stored TOTP secret, 0 when no row
    sessions,   \* SessionManager.tokens: set of entries, keyed by token
    issued,     \* refresh tokens handed to clients, each with the secret it was issued under
    now,        \* wall clock, in seconds
    nextSecret, \* next value of the random sources (hash tokens, TOTP secrets)
    nextSession,\* next random session token
    steps,      \* number of requests answered and clock advances so far
    res,        \* what the last request returned
    taskQueue,  \* EmailService.taskQueue: the buffered channel of email tasks
    worker,     \* position of the goroutine EmailService.worker
    calls       \* requests in flight that are handled step by step: position and locals

vars == <<users, mailbox, secrets, sessions, issued, now, nextSecret, nextSession, steps, res,
          taskQueue, worker, calls>>

-----------------------------------------------------------------------------
\* Bounds of the model.
MaxSteps == 6

\* Requests that may be in flight at the same time.
Requests == {"r1", "r2"}

\* A request that is not being handled.
Idle == [pc |-> "idle"]

\* Clock advances, in seconds: one second, and the lifetime of a code (which is
\* beyond the rate-limit window and the lifetime of a session).
TickSteps == {1, 600}

\* Program constants.
Minute == 60
Hour == 3600
defaultCodeTimeout == 2
codeLifetimeMinutes == 10
defaultJWTRefreshDuration == 720 * Hour
defaultJWTDuration == 10 * Minute
defaultSessionTokenDuration == 5 * Minute

google2FAAuthMethod == "google_authenticator"
email2FAAuthMethod == "email"
CodeVerifyType == "verify"
Code2FAType == "2fa"
CodePassType == "password"
CodeChangeEmail == "email_upd"

\* Error values.
Nil == "nil"
ErrUserNotFound == "user not found"
ErrInvalidCredentials == "invalid credentials"
ErrInternalError == "internal Server Error"
ErrInvalidTwoFactorMethod == "two factor auth method not supported"
ErrUser2FANotEnabled == "two factor auth is not enabled"
ErrInvalid2FACode == "2fa code is invalid"
ErrUser2FAAlreadyEnabled == "2fa auth already enabled"
ErrInvalidVerificationCode == "invalid verification code"
ErrVerificationCodeExpired == "verification code expired"
ErrUserNotVerified == "user has not been verified"
ErrTooManyEmailCodeRequests == "too many email code requests"
InvalidCodeType == "invalid code type"
ErrNoTwoFactorCodeGenerated == "no two-factor authentication code generated"
ErrInvalidOldPassword == "invalid old password"
ErrUserAlreadyVerified == "user already verified"
ErrEmailAlreadyExists == "email already exists"
ErrInvalidJWTToken == "JWT token is invalid"
ErrExpiredJWTToken == "JWT token is expired"
ErrInvalidJWTRefreshToken == "JWT Refresh token is invalid"
ErrSignatureInvalid == "signature is invalid"
ErrInvalidSessionToken == "session token is invalid"
ErrExpiredSessionToken == "token is expired"

\* Inputs.
Users == {"u1"}
NoSuchUser == "no-such-user"
Identifiers == Users \cup {NoSuchUser}
NewEmails == {"u1", "new@mail"}
Passwords == {"pw1", "pw2"}
Codes == {"111111", "222222"}
Methods == {email2FAAuthMethod, google2FAAuthMethod}
CodeTypes == {CodeVerifyType, Code2FAType, CodePassType}

-----------------------------------------------------------------------------
\* Password hashing.
hashPassword(password) == <<"bcrypt", password>>

doPasswordsMatch(hashedPassword, currPassword) == hashedPassword = hashPassword(currPassword)

-----------------------------------------------------------------------------
\* Tokens.
NoToken == [kind |-> "none"]

\* A custom key that leaves the rotating secret out of the tag.
generateCustomKey_Unkeyed(userID, tokenHash) == <<"hmac-sha256", 0, userID>>

\* HMAC-SHA256 of the user id keyed by the rotating secret: two tags are equal
\* exactly when key and message are.
generateCustomKey(userID, tokenHash) == <<"hmac-sha256", tokenHash, userID>>

GenerateRefreshJWT(userID, tokenHash, duration) ==
    [kind |-> "refresh", UserID |-> userID, CusKey |-> generateCustomKey(userID, tokenHash),
     IssuedAt |-> now, ExpiresAt |-> now + duration, signed |-> TRUE]

GenerateAccessJWT(userID, duration) ==
    [kind |-> "access", UserID |-> userID, IssuedAt |-> now, ExpiresAt |-> now + duration,
     signed |-> TRUE]

\* jwt.ParseWithClaims: the claims are validated (expired when now > exp), then
\* the signature; the expired bit is looked at first by the callers.
ParseWithClaims(token) ==
    IF now > token.ExpiresAt THEN ErrExpiredJWTToken
    ELSE IF ~token.signed THEN ErrSignatureInvalid
    ELSE Nil

ExtractUserIDFromRefreshToken(token) ==
    LET err == ParseWithClaims(token) IN
    IF err # Nil THEN [userID |-> "", err |-> err]
    ELSE IF token.UserID = "" THEN [userID |-> "", err |-> ErrInvalidJWTToken]
    ELSE [userID |-> token.UserID, err |-> Nil]

ValidateRefreshToken(token, tokenHash) ==
    LET err == ParseWithClaims(token) IN
    IF err # Nil THEN err
    ELSE IF token.UserID = "" THEN ErrInvalidJWTToken
    ELSE IF token.CusKey # generateCustomKey(token.UserID, tokenHash) THEN ErrInvalidJWTToken
    ELSE Nil

\* A token a client made up: claims of its choosing, no valid signature.
ForgedToken(u) ==
    [kind |-> "refresh", UserID |-> u, CusKey |-> generateCustomKey(u, users[u].hashToken),
     IssuedAt |-> now, ExpiresAt |-> now + defaultJWTRefreshDuration, signed |-> FALSE]

-----------------------------------------------------------------------------
\* The one-time-code mailbox (user_email_verification_codes).
NoRow == [present |-> FALSE, code |-> "", type |-> "", expiresAt |-> 0, createdAt |-> 0]

getEmailVerificationCode(userID) ==
    IF mailbox[userID].present
    THEN [code |-> mailbox[userID].code, codeType |-> mailbox[userID].type,
          expiresAt |-> mailbox[userID].expiresAt, createdAt |-> mailbox[userID].createdAt,
          err |-> Nil]
    ELSE [code |-> "", codeType |-> "", expiresAt |-> 0, createdAt |-> 0,
          err |-> ErrNoTwoFactorCodeGenerated]

\* INSERT ... ON CONFLICT (user_id) DO UPDATE SET code, expires_at, created_at:
\* the row of a user who has one keeps its type.
saveEmailVerificationCode(row, code, expiresAt, codeType) ==
    IF row.present
    THEN [row EXCEPT !.code = code, !.expiresAt = expiresAt, !.createdAt = now]
    ELSE [present |-> TRUE, code |-> code, type |-> codeType, expiresAt |-> expiresAt,
          createdAt |-> now]

deleteEmailTwoFactorCode(userID) == [mailbox EXCEPT ![userID] = NoRow]

\* A rate limit whose window is tested the wrong way round.
TooManyRequests_OutsideWindow(row, codeType) ==
    /\ row.present
    /\ row.type # ""
    /\ (now - row.createdAt) > defaultCodeTimeout * Minute
    /\ row.type # CodeVerifyType
    /\ codeType # row.type

\* The rate limit of SendEmailCode on the stored row.
TooManyRequests(row, codeType) ==
    /\ row.present
    /\ row.type # ""
    /\ (now - row.createdAt) < defaultCodeTimeout * Minute
    /\ row.type # CodeVerifyType
    /\ codeType # row.type

Email(userID, codeType, code) == [to |-> userID, template |-> codeType, code |-> code]

\* SendEmailCode on a mailbox row: the error, the row afterwards and the emails queued.
SendEmailCode(row, userID, codeType, newCode) ==
    IF TooManyRequests(row, codeType)
    THEN [err |-> ErrTooManyEmailCodeRequests, row |-> row, emails |-> <<>>]
    ELSE [err |-> Nil,
          row |-> saveEmailVerificationCode(row, newCode, now + codeLifetimeMinutes * Minute, codeType),
          emails |-> <<Email(userID, codeType, newCode)>>]

-----------------------------------------------------------------------------
\* The time-based authenticator (pquerna/otp totp.Validate: 30-second steps, one
\* step of skew either way).  A code is the pair of the secret and the step it
\* was derived in.
totpPeriod == 30

TotpCode(secret, t) == [secret |-> secret, step |-> t \div totpPeriod]

VerifyCode(secret, code) ==
    /\ DOMAIN code = {"secret", "step"}
    /\ code.secret = secret
    /\ code.step \in {(now \div totpPeriod) - 1, now \div totpPeriod, (now \div totpPeriod) + 1}

MailCode(digits) == [digits |-> digits]

\* user_two_factor_secrets
GetTwoFactorSecret(userID) ==
    IF secrets[userID] = 0 THEN [secret |-> 0, err |-> ErrUser2FANotEnabled]
    ELSE [secret |-> secrets[userID], err |-> Nil]

\* The codes a client may submit: any mailed code, or the current code of the
\* authenticator app that holds the user's stored secret.
CandidateCodes ==
    {MailCode(c) : c \in Codes}
        \cup {TotpCode(secrets[u], now) : u \in {v \in Users : secrets[v] # 0}}

-----------------------------------------------------------------------------
\* The challenge session store.
SessionToken(t) == [kind |-> "session", token |-> t]

\* A session store that calls a token expired one second before its expiry.
VerifySessionToken_EarlyExpiry(sessionToken) ==
    LET found == {s \in sessions : s.token = sessionToken} IN
    IF found = {} THEN [userID |-> "", err |-> ErrInvalidSessionToken]
    ELSE LET token == CHOOSE s \in found : TRUE IN
         IF now >= token.ExpiresAt - 1 THEN [userID |-> "", err |-> ErrExpiredSessionToken]
         ELSE [userID |-> token.UserID, err |-> Nil]

\* SessionManager.VerifySessionToken: time.Now().After(token.ExpiresAt)
VerifySessionToken(sessionToken) ==
    LET found == {s \in sessions : s.token = sessionToken} IN
    IF found = {} THEN [userID |-> "", err |-> ErrInvalidSessionToken]
    ELSE LET token == CHOOSE s \in found : TRUE IN
         IF now > token.ExpiresAt THEN [userID |-> "", err |-> ErrExpiredSessionToken]
         ELSE [userID |-> token.UserID, err |-> Nil]

GenerateSessionToken(userID, duration) ==
    sessions \cup {[token |-> nextSession, UserID |-> userID, ExpiresAt |-> now + duration,
                    CreatedAt |-> now]}

-----------------------------------------------------------------------------
\* The user store.
UserExists(id) == id \in Users

updateUserPasswordAndHashToken(userID, newPasswordHash, newHashToken) ==
    [users EXCEPT ![userID].passwordHash = newPasswordHash, ![userID].hashToken = newHashToken]

\* A password change that writes the new hash and keeps the rotating secret.
changePassword_KeepsSecret(userID, newPassword) ==
    updateUserPasswordAndHashToken(userID, hashPassword(newPassword), users[userID].hashToken)

\* user.service.changePassword: hash the password, draw a new hash token, one UPDATE.
changePassword(userID, newPassword) ==
    updateUserPasswordAndHashToken(userID, hashPassword(newPassword), nextSecret)

\* An update that sets the enabled flag and leaves the method column alone.
EnableTwoFactor_KeepsMethod(userID, method) ==
    [users EXCEPT ![userID].twoFactorEnabled = TRUE]

\* userRepository.EnableTwoFactor
EnableTwoFactor(userID, method) ==
    [users EXCEPT ![userID].twoFactorEnabled = TRUE, ![userID].twoFactorMethod = method]

\* A disable that leaves the flags of the user row as they were.
DisableTwoFactorUsers_KeepsFlags(userID) == users

\* userRepository.DisableTwoFactor: the users row, and the secret of the
\* time-based method.
DisableTwoFactorUsers(userID) ==
    [users EXCEPT ![userID].twoFactorEnabled = FALSE, ![userID].twoFactorMethod = ""]

\* A disable that leaves the row of user_two_factor_secrets in place.
DisableTwoFactorSecrets_KeepsSecret(userID) == secrets

DisableTwoFactorSecrets(userID) ==
    IF users[userID].twoFactorMethod = google2FAAuthMethod
    THEN [secrets EXCEPT ![userID] = 0] ELSE secrets

updateEmailVerified(userID, verified) == [users EXCEPT ![userID].isActive = verified]

\* The client keeps the refresh token it is handed; the rotating secret it was
\* issued under is recorded with it.
Remember(token, tokenHash) == issued \cup {[token |-> token, secret |-> tokenHash]}

-----------------------------------------------------------------------------
\* A request is a function of the store and the clock: what it returns and the
\* store it leaves.
Store ==
    [users |-> users, mailbox |-> mailbox, secrets |-> secrets, sessions |-> sessions,
     issued |-> issued, nextSecret |-> nextSecret, nextSession |-> nextSession]

Returns(user, err, first, refresh, emails, store) ==
    [user |-> user, err |-> err, first |-> first, refresh |-> refresh, emails |-> emails,
     store |-> store]

Fails(user, err) == Returns(user, err, NoToken, NoToken, <<>>, Store)

\* Consuming the mailbox code in VerifyTwoFactor and VerifyTwoFactorCode: the
\* type is looked at before the error of the read.
ConsumeTypeFirst(userID, code, expectedType, invalidErr) ==
    LET stored == getEmailVerificationCode(userID) IN
    IF stored.codeType # expectedType THEN InvalidCodeType
    ELSE IF stored.err # Nil THEN stored.err
    ELSE IF MailCode(stored.code) # code THEN invalidErr
    ELSE IF now > stored.expiresAt THEN ErrVerificationCodeExpired
    ELSE Nil

\* A consumption that looks at the expiry before it compares the code.
ConsumeErrFirst_ExpiryFirst(userID, code, expectedType) ==
    LET stored == getEmailVerificationCode(userID) IN
    IF stored.err # Nil THEN stored.err
    ELSE IF stored.codeType # expectedType THEN InvalidCodeType
    ELSE IF now > stored.expiresAt THEN ErrVerificationCodeExpired
    ELSE IF MailCode(stored.code) # code THEN ErrInvalid2FACode
    ELSE Nil

\* Consuming the mailbox code in DisableTwoFactorAuth and ResetPassword: the
\* error of the read is looked at first.
ConsumeErrFirst(userID, code, expectedType) ==
    LET stored == getEmailVerificationCode(userID) IN
    IF stored.err # Nil THEN stored.err
    ELSE IF stored.codeType # expectedType THEN InvalidCodeType
    ELSE IF MailCode(stored.code) # code THEN ErrInvalid2FACode
    ELSE IF now > stored.expiresAt THEN ErrVerificationCodeExpired
    ELSE Nil

\* A login that looks at the password before it looks at the account's
\* verification.
LoginExisting_PasswordFirst(userID, password, newCode) ==
    LET existingUser == users[userID]
        verify == SendEmailCode(mailbox[userID], userID, CodeVerifyType, newCode)
        sent == IF existingUser.twoFactorMethod = email2FAAuthMethod
                THEN SendEmailCode(mailbox[userID], userID, Code2FAType, newCode)
                ELSE [err |-> Nil, row |-> mailbox[userID], emails |-> <<>>]
        refreshToken == GenerateRefreshJWT(userID, existingUser.hashToken,
                                           defaultJWTRefreshDuration)
    IN
    IF ~doPasswordsMatch(existingUser.passwordHash, password)
    THEN Fails(userID, ErrInvalidCredentials)
    ELSE IF ~existingUser.isActive
    THEN Returns(userID, IF verify.err # Nil THEN ErrInternalError ELSE ErrUserNotVerified,
                 NoToken, NoToken, verify.emails,
                 [Store EXCEPT !.mailbox = [mailbox EXCEPT ![userID] = verify.row]])
    ELSE IF ~doPasswordsMatch(existingUser.passwordHash, password)
    THEN Fails(userID, ErrInvalidCredentials)
    ELSE IF existingUser.twoFactorEnabled
    THEN IF existingUser.twoFactorMethod \notin Methods
         THEN Fails(userID, ErrInvalidTwoFactorMethod)
         ELSE IF sent.err # Nil THEN Fails(userID, ErrInternalError)
         ELSE Returns(userID, Nil, SessionToken(nextSession), NoToken, sent.emails,
                      [Store EXCEPT !.mailbox = [mailbox EXCEPT ![userID] = sent.row],
                                    !.sessions = GenerateSessionToken(userID,
                                                     defaultSessionTokenDuration),
                                    !.nextSession = nextSession + 1])
    ELSE Returns(userID, Nil, GenerateAccessJWT(userID, defaultJWTDuration), refreshToken,
                 <<>>, [Store EXCEPT !.issued = Remember(refreshToken, existingUser.hashToken)])

\* auth.service.Login, once the user is found.
LoginExisting(userID, password, newCode) ==
    LET existingUser == users[userID]
        verify == SendEmailCode(mailbox[userID], userID, CodeVerifyType, newCode)
        sent == IF existingUser.twoFactorMethod = email2FAAuthMethod
                THEN SendEmailCode(mailbox[userID], userID, Code2FAType, newCode)
                ELSE [err |-> Nil, row |-> mailbox[userID], emails |-> <<>>]
        refreshToken == GenerateRefreshJWT(userID, existingUser.hashToken,
                                           defaultJWTRefreshDuration)
    IN
    IF ~existingUser.isActive
    THEN Returns(userID, IF verify.err # Nil THEN ErrInternalError ELSE ErrUserNotVerified,
                 NoToken, NoToken, verify.emails,
                 [Store EXCEPT !.mailbox = [mailbox EXCEPT ![userID] = verify.row]])
    ELSE IF ~doPasswordsMatch(existingUser.passwordHash, password)
    THEN Fails(userID, ErrInvalidCredentials)
    ELSE IF existingUser.twoFactorEnabled
    THEN IF existingUser.twoFactorMethod \notin Methods
         THEN Fails(userID, ErrInvalidTwoFactorMethod)
         ELSE IF sent.err # Nil THEN Fails(userID, ErrInternalError)
         ELSE Returns(userID, Nil, SessionToken(nextSession), NoToken, sent.emails,
                      [Store EXCEPT !.mailbox = [mailbox EXCEPT ![userID] = sent.row],
                                    !.sessions = GenerateSessionToken(userID,
                                                     defaultSessionTokenDuration),
                                    !.nextSession = nextSession + 1])
    ELSE Returns(userID, Nil, GenerateAccessJWT(userID, defaultJWTDuration), refreshToken,
                 <<>>, [Store EXCEPT !.issued = Remember(refreshToken, existingUser.hashToken)])

\* A login that tells the caller that the user was not found.
Login_LeaksNotFound(emailOrLogin, password, newCode) ==
    IF ~UserExists(emailOrLogin) THEN Fails("", ErrUserNotFound)
    ELSE LoginExisting(emailOrLogin, password, newCode)

\* auth.service.Login: a user that is not found is answered as a wrong password is.
Login(emailOrLogin, password, newCode) ==
    IF ~UserExists(emailOrLogin) THEN Fails("", ErrInvalidCredentials)
    ELSE LoginExisting(emailOrLogin, password, newCode)

\* A challenge step that revokes the challenge token once it is answered.
VerifyTwoFactor_Revokes(sessionToken, code) ==
    LET session == VerifySessionToken(sessionToken) IN
    IF session.err # Nil THEN Fails("", session.err)
    ELSE
    LET userID == session.userID
        existingUser == users[userID]
        secret == GetTwoFactorSecret(userID)
        err == IF ~existingUser.twoFactorEnabled THEN ErrUser2FANotEnabled
               ELSE IF existingUser.twoFactorMethod = email2FAAuthMethod
                    THEN ConsumeTypeFirst(userID, code, Code2FAType, ErrInvalidVerificationCode)
               ELSE IF existingUser.twoFactorMethod = google2FAAuthMethod
                    THEN IF secret.err # Nil THEN secret.err
                         ELSE IF ~VerifyCode(secret.secret, code) THEN ErrInvalid2FACode
                         ELSE Nil
               ELSE ErrInvalidTwoFactorMethod
        refreshToken == GenerateRefreshJWT(userID, existingUser.hashToken, defaultJWTDuration)
    IN
    IF err # Nil THEN Fails(userID, err)
    ELSE Returns(userID, Nil, GenerateAccessJWT(userID, defaultJWTDuration), refreshToken, <<>>,
                 [Store EXCEPT !.mailbox = IF existingUser.twoFactorMethod = email2FAAuthMethod
                                           THEN deleteEmailTwoFactorCode(userID) ELSE mailbox,
                               !.sessions = {s \in sessions : s.token # sessionToken},
                               !.issued = Remember(refreshToken, existingUser.hashToken)])

\* A challenge step that dispatches on the stored method without a look at
\* the enabled flag.
VerifyTwoFactor_IgnoresEnabled(sessionToken, code) ==
    LET session == VerifySessionToken(sessionToken) IN
    IF session.err # Nil THEN Fails("", session.err)
    ELSE
    LET userID == session.userID
        existingUser == users[userID]
        secret == GetTwoFactorSecret(userID)
        err == IF existingUser.twoFactorMethod = email2FAAuthMethod
                    THEN ConsumeTypeFirst(userID, code, Code2FAType, ErrInvalidVerificationCode)
               ELSE IF existingUser.twoFactorMethod = google2FAAuthMethod
                    THEN IF secret.err # Nil THEN secret.err
                         ELSE IF ~VerifyCode(secret.secret, code) THEN ErrInvalid2FACode
                         ELSE Nil
               ELSE ErrInvalidTwoFactorMethod
        refreshToken == GenerateRefreshJWT(userID, existingUser.hashToken, defaultJWTDuration)
    IN
    IF err # Nil THEN Fails(userID, err)
    ELSE Returns(userID, Nil, GenerateAccessJWT(userID, defaultJWTDuration), refreshToken, <<>>,
                 [Store EXCEPT !.mailbox = IF existingUser.twoFactorMethod = email2FAAuthMethod
                                           THEN deleteEmailTwoFactorCode(userID) ELSE mailbox,
                               !.issued = Remember(refreshToken, existingUser.hashToken)])

\* A challenge step that throws the pending code away when a guess fails.
VerifyTwoFactor_BurnsCode(sessionToken, code) ==
    LET session == VerifySessionToken(sessionToken) IN
    IF session.err # Nil THEN Fails("", session.err)
    ELSE
    LET userID == session.userID
        existingUser == users[userID]
        secret == GetTwoFactorSecret(userID)
        err == IF ~existingUser.twoFactorEnabled THEN ErrUser2FANotEnabled
               ELSE IF existingUser.twoFactorMethod = email2FAAuthMethod
                    THEN ConsumeTypeFirst(userID, code, Code2FAType, ErrInvalidVerificationCode)
               ELSE IF existingUser.twoFactorMethod = google2FAAuthMethod
                    THEN IF secret.err # Nil THEN secret.err
                         ELSE IF ~VerifyCode(secret.secret, code) THEN ErrInvalid2FACode
                         ELSE Nil
               ELSE ErrInvalidTwoFactorMethod
        refreshToken == GenerateRefreshJWT(userID, existingUser.hashToken, defaultJWTDuration)
    IN
    IF err # Nil
    THEN Returns(userID, err, NoToken, NoToken, <<>>,
                 [Store EXCEPT !.mailbox = deleteEmailTwoFactorCode(userID)])
    ELSE Returns(userID, Nil, GenerateAccessJWT(userID, defaultJWTDuration), refreshToken, <<>>,
                 [Store EXCEPT !.mailbox = IF existingUser.twoFactorMethod = email2FAAuthMethod
                                           THEN deleteEmailTwoFactorCode(userID) ELSE mailbox,
                               !.issued = Remember(refreshToken, existingUser.hashToken)])

\* auth.service.VerifyTwoFactor
VerifyTwoFactor(sessionToken, code) ==
    LET session == VerifySessionToken(sessionToken) IN
    IF session.err # Nil THEN Fails("", session.err)
    ELSE
    LET userID == session.userID
        existingUser == users[userID]
        secret == GetTwoFactorSecret(userID)
        err == IF ~existingUser.twoFactorEnabled THEN ErrUser2FANotEnabled
               ELSE IF existingUser.twoFactorMethod = email2FAAuthMethod
                    THEN ConsumeTypeFirst(userID, code, Code2FAType, ErrInvalidVerificationCode)
               ELSE IF existingUser.twoFactorMethod = google2FAAuthMethod
                    THEN IF secret.err # Nil THEN secret.err
                         ELSE IF ~VerifyCode(secret.secret, code) THEN ErrInvalid2FACode
                         ELSE Nil
               ELSE ErrInvalidTwoFactorMethod
        refreshToken == GenerateRefreshJWT(userID, existingUser.hashToken, defaultJWTDuration)
    IN
    IF err # Nil THEN Fails(userID, err)
    ELSE Returns(userID, Nil, GenerateAccessJWT(userID, defaultJWTDuration), refreshToken, <<>>,
                 [Store EXCEPT !.mailbox = IF existingUser.twoFactorMethod = email2FAAuthMethod
                                           THEN deleteEmailTwoFactorCode(userID) ELSE mailbox,
                               !.issued = Remember(refreshToken, existingUser.hashToken)])

\* auth.service.RegisterTwoFactor
RegisterTwoFactor(userID, method, newCode) ==
    LET sent == SendEmailCode(mailbox[userID], userID, Code2FAType, newCode) IN
    IF users[userID].twoFactorEnabled THEN Fails(userID, ErrUser2FAAlreadyEnabled)
    ELSE IF method = email2FAAuthMethod
    THEN IF sent.err # Nil THEN Fails(userID, ErrInternalError)
         ELSE Returns(userID, Nil, NoToken, NoToken, sent.emails,
                      [Store EXCEPT !.mailbox = [mailbox EXCEPT ![userID] = sent.row]])
    ELSE IF method = google2FAAuthMethod
    THEN Returns(userID, Nil, NoToken, NoToken, <<>>,
                 [Store EXCEPT !.secrets = [secrets EXCEPT ![userID] = nextSecret],
                               !.nextSecret = nextSecret + 1])
    ELSE Fails(userID, ErrInvalidTwoFactorMethod)

\* auth.service.RequestEmail2FACode
RequestEmail2FACode(userID, newCode) ==
    LET sent == SendEmailCode(mailbox[userID], userID, Code2FAType, newCode) IN
    IF ~users[userID].twoFactorEnabled THEN Fails(userID, ErrUser2FANotEnabled)
    ELSE IF users[userID].twoFactorMethod # email2FAAuthMethod
    THEN Fails(userID, ErrInvalidTwoFactorMethod)
    ELSE IF sent.err # Nil THEN Fails(userID, ErrInternalError)
    ELSE Returns(userID, Nil, NoToken, NoToken, sent.emails,
                 [Store EXCEPT !.mailbox = [mailbox EXCEPT ![userID] = sent.row]])

\* A disable step that asks for proof of the stored method, whatever method
\* the request names.
DisableTwoFactorAuth_AnyMethod(userID, method, verificationCode) ==
    LET existingUser == users[userID]
        secret == GetTwoFactorSecret(userID)
        err == IF ~existingUser.twoFactorEnabled THEN ErrUser2FANotEnabled
               ELSE IF existingUser.twoFactorMethod = google2FAAuthMethod
                    THEN IF secret.err # Nil THEN ErrInternalError
                         ELSE IF ~VerifyCode(secret.secret, verificationCode)
                              THEN ErrInvalid2FACode ELSE Nil
               ELSE IF existingUser.twoFactorMethod = email2FAAuthMethod
                    THEN ConsumeErrFirst(userID, verificationCode, Code2FAType)
               ELSE ErrInvalidTwoFactorMethod
    IN
    IF err # Nil THEN Fails(userID, err)
    ELSE Returns(userID, Nil, NoToken, NoToken, <<>>,
                 [Store EXCEPT !.mailbox = IF existingUser.twoFactorMethod = email2FAAuthMethod
                                           THEN deleteEmailTwoFactorCode(userID) ELSE mailbox,
                               !.users = DisableTwoFactorUsers(userID),
                               !.secrets = DisableTwoFactorSecrets(userID)])

\* auth.service.DisableTwoFactorAuth
DisableTwoFactorAuth(userID, method, verificationCode) ==
    LET existingUser == users[userID]
        secret == GetTwoFactorSecret(userID)
        err == IF ~existingUser.twoFactorEnabled THEN ErrUser2FANotEnabled
               ELSE IF existingUser.twoFactorMethod # method THEN ErrInvalidTwoFactorMethod
               ELSE IF existingUser.twoFactorMethod = google2FAAuthMethod
                    THEN IF secret.err # Nil THEN ErrInternalError
                         ELSE IF ~VerifyCode(secret.secret, verificationCode)
                              THEN ErrInvalid2FACode ELSE Nil
               ELSE IF existingUser.twoFactorMethod = email2FAAuthMethod
                    THEN ConsumeErrFirst(userID, verificationCode, Code2FAType)
               ELSE ErrInvalidTwoFactorMethod
    IN
    IF err # Nil THEN Fails(userID, err)
    ELSE Returns(userID, Nil, NoToken, NoToken, <<>>,
                 [Store EXCEPT !.mailbox = IF existingUser.twoFactorMethod = email2FAAuthMethod
                                           THEN deleteEmailTwoFactorCode(userID) ELSE mailbox,
                               !.users = DisableTwoFactorUsers(userID),
                               !.secrets = DisableTwoFactorSecrets(userID)])

\* A confirmation that enables the method and leaves the mailed code in place.
VerifyTwoFactorCode_KeepsCode(userID, method, code) ==
    LET existingUser == users[userID]
        secret == GetTwoFactorSecret(userID)
        err == IF existingUser.twoFactorEnabled THEN ErrUser2FAAlreadyEnabled
               ELSE IF method = email2FAAuthMethod
                    THEN ConsumeTypeFirst(userID, code, Code2FAType, ErrInvalid2FACode)
               ELSE IF method = google2FAAuthMethod
                    THEN IF secret.err = ErrUser2FANotEnabled THEN ErrInvalidTwoFactorMethod
                         ELSE IF secret.err # Nil THEN ErrInternalError
                         ELSE IF ~VerifyCode(secret.secret, code) THEN ErrInvalid2FACode
                         ELSE Nil
               ELSE ErrInvalidTwoFactorMethod
    IN
    IF err # Nil THEN Fails(userID, err)
    ELSE Returns(userID, Nil, NoToken, NoToken, <<>>,
                 [Store EXCEPT !.users = EnableTwoFactor(userID, method)])

\* auth.service.VerifyTwoFactorCode
VerifyTwoFactorCode(userID, method, code) ==
    LET existingUser == users[userID]
        secret == GetTwoFactorSecret(userID)
        err == IF existingUser.twoFactorEnabled THEN ErrUser2FAAlreadyEnabled
               ELSE IF method = email2FAAuthMethod
                    THEN ConsumeTypeFirst(userID, code, Code2FAType, ErrInvalid2FACode)
               ELSE IF method = google2FAAuthMethod
                    THEN IF secret.err = ErrUser2FANotEnabled THEN ErrInvalidTwoFactorMethod
                         ELSE IF secret.err # Nil THEN ErrInternalError
                         ELSE IF ~VerifyCode(secret.secret, code) THEN ErrInvalid2FACode
                         ELSE Nil
               ELSE ErrInvalidTwoFactorMethod
    IN
    IF err # Nil THEN Fails(userID, err)
    ELSE Returns(userID, Nil, NoToken, NoToken, <<>>,
                 [Store EXCEPT !.mailbox = IF method = email2FAAuthMethod
                                           THEN deleteEmailTwoFactorCode(userID) ELSE mailbox,
                               !.users = EnableTwoFactor(userID, method)])

\* auth.service.JWTRefreshTokenMiddleware: the user the request goes on as, or
\* the error answered.
JWTRefreshTokenMiddleware(token) ==
    LET extracted == ExtractUserIDFromRefreshToken(token) IN
    IF extracted.err = ErrExpiredJWTToken THEN [userID |-> "", err |-> ErrExpiredJWTToken]
    ELSE IF extracted.err # Nil THEN [userID |-> "", err |-> ErrInternalError]
    ELSE IF ~UserExists(extracted.userID) THEN [userID |-> "", err |-> ErrInternalError]
    ELSE IF ValidateRefreshToken(token, users[extracted.userID].hashToken) # Nil
         THEN [userID |-> "", err |-> ErrInvalidJWTRefreshToken]
    ELSE [userID |-> extracted.userID, err |-> Nil]

\* A refresh that hands the presented refresh token back with a new access token.
RefreshAccessToken_ReturnsPresented(token) ==
    LET checked == JWTRefreshTokenMiddleware(token) IN
    IF checked.err # Nil THEN Fails("", checked.err)
    ELSE
    LET userID == checked.userID
        existingUser == users[userID]
        newRefreshToken == token
    IN
    Returns(userID, Nil, GenerateAccessJWT(userID, defaultJWTDuration), newRefreshToken, <<>>,
            [Store EXCEPT !.issued = Remember(newRefreshToken, existingUser.hashToken)])

\* A refresh that rotates the user's secret, so that the new refresh token is
\* the only one left standing.
RefreshAccessToken_Rotates(token) ==
    LET checked == JWTRefreshTokenMiddleware(token) IN
    IF checked.err # Nil THEN Fails("", checked.err)
    ELSE
    LET userID == checked.userID
        newRefreshToken == GenerateRefreshJWT(userID, nextSecret, defaultJWTRefreshDuration)
    IN
    Returns(userID, Nil, GenerateAccessJWT(userID, defaultJWTDuration), newRefreshToken, <<>>,
            [Store EXCEPT !.users = [users EXCEPT ![userID].hashToken = nextSecret],
                          !.nextSecret = nextSecret + 1,
                          !.issued = Remember(newRefreshToken, nextSecret)])

\* PUT /api/refresh/token: the middleware, then auth.service.RefreshAccessToken.
RefreshAccessToken(token) ==
    LET checked == JWTRefreshTokenMiddleware(token) IN
    IF checked.err # Nil THEN Fails("", checked.err)
    ELSE
    LET userID == checked.userID
        existingUser == users[userID]
        newRefreshToken == GenerateRefreshJWT(userID, existingUser.hashToken,
                                              defaultJWTRefreshDuration)
    IN
    Returns(userID, Nil, GenerateAccessJWT(userID, defaultJWTDuration), newRefreshToken, <<>>,
            [Store EXCEPT !.issued = Remember(newRefreshToken, existingUser.hashToken)])

\* auth.service.RequestPasswordReset
RequestPasswordReset(email, codeFor2FA, codeForReset) ==
    IF ~UserExists(email) THEN Fails("", ErrInternalError)
    ELSE
    LET userID == email
        existingUser == users[userID]
        first == IF existingUser.twoFactorEnabled
                    /\ existingUser.twoFactorMethod = email2FAAuthMethod
                 THEN SendEmailCode(mailbox[userID], userID, Code2FAType, codeFor2FA)
                 ELSE [err |-> Nil, row |-> mailbox[userID], emails |-> <<>>]
        second == SendEmailCode(first.row, userID, CodePassType, codeForReset)
    IN
    IF existingUser.twoFactorEnabled /\ existingUser.twoFactorMethod = google2FAAuthMethod
    THEN Fails(userID, Nil)
    ELSE IF existingUser.twoFactorEnabled /\ existingUser.twoFactorMethod \notin Methods
    THEN Fails(userID, ErrInvalidTwoFactorMethod)
    ELSE IF first.err # Nil
    THEN Fails(userID, IF first.err = ErrTooManyEmailCodeRequests
                       THEN ErrTooManyEmailCodeRequests ELSE ErrInternalError)
    ELSE Returns(userID,
                 IF second.err = Nil THEN Nil
                 ELSE IF second.err = ErrTooManyEmailCodeRequests
                      THEN ErrTooManyEmailCodeRequests ELSE ErrInternalError,
                 NoToken, NoToken, first.emails \o second.emails,
                 [Store EXCEPT !.mailbox = [mailbox EXCEPT ![userID] = second.row]])

\* A reset that asks for the password-reset code whether or not the user has
\* two-factor authentication.
ResetPassword_IgnoresTwoFactor(email, verificationCode, newPassword) ==
    IF ~UserExists(email) THEN Fails("", ErrUserNotFound)
    ELSE
    LET userID == email
        existingUser == users[userID]
        secret == GetTwoFactorSecret(userID)
        viaMail == TRUE
        err == ConsumeErrFirst(userID, verificationCode, CodePassType)
    IN
    IF err # Nil THEN Fails(userID, err)
    ELSE Returns(userID, Nil, NoToken, NoToken, <<>>,
                 [Store EXCEPT !.mailbox = IF viaMail THEN deleteEmailTwoFactorCode(userID)
                                           ELSE mailbox,
                               !.users = changePassword(userID, newPassword),
                               !.nextSecret = nextSecret + 1])

\* auth.service.ResetPassword
ResetPassword(email, verificationCode, newPassword) ==
    IF ~UserExists(email) THEN Fails("", ErrUserNotFound)
    ELSE
    LET userID == email
        existingUser == users[userID]
        secret == GetTwoFactorSecret(userID)
        viaMail == ~existingUser.twoFactorEnabled
                   \/ existingUser.twoFactorMethod = email2FAAuthMethod
        err == IF existingUser.twoFactorEnabled
               THEN IF existingUser.twoFactorMethod = google2FAAuthMethod
                    THEN IF secret.err # Nil THEN ErrInternalError
                         ELSE IF ~VerifyCode(secret.secret, verificationCode)
                              THEN ErrInvalid2FACode ELSE Nil
                    ELSE IF existingUser.twoFactorMethod = email2FAAuthMethod
                    THEN ConsumeErrFirst(userID, verificationCode, Code2FAType)
                    ELSE ErrInvalidTwoFactorMethod
               ELSE ConsumeErrFirst(userID, verificationCode, CodePassType)
    IN
    IF err # Nil THEN Fails(userID, err)
    ELSE Returns(userID, Nil, NoToken, NoToken, <<>>,
                 [Store EXCEPT !.mailbox = IF viaMail THEN deleteEmailTwoFactorCode(userID)
                                           ELSE mailbox,
                               !.users = changePassword(userID, newPassword),
                               !.nextSecret = nextSecret + 1])

\* user.service.ChangePasswordWithOldPassword
ChangePasswordWithOldPassword(userID, oldPassword, newPassword) ==
    IF ~doPasswordsMatch(users[userID].passwordHash, oldPassword)
    THEN Fails(userID, ErrInvalidOldPassword)
    ELSE Returns(userID, Nil, NoToken, NoToken, <<>>,
                 [Store EXCEPT !.users = changePassword(userID, newPassword),
                               !.nextSecret = nextSecret + 1])

\* user.service.VerifyRegistrationCode
VerifyRegistrationCode(email, code) ==
    IF ~UserExists(email) THEN Fails("", ErrUserNotFound)
    ELSE
    LET userID == email
        stored == getEmailVerificationCode(userID)
        err == IF users[userID].isActive THEN ErrUserAlreadyVerified
               ELSE IF stored.err # Nil THEN ErrInvalidVerificationCode
               ELSE IF stored.codeType # CodeVerifyType THEN ErrInvalidVerificationCode
               ELSE IF MailCode(stored.code) # code THEN ErrInvalidVerificationCode
               ELSE IF now > stored.expiresAt THEN ErrVerificationCodeExpired
               ELSE Nil
    IN
    IF err # Nil THEN Fails(userID, err)
    ELSE Returns(userID, Nil, NoToken, NoToken, <<>>,
                 [Store EXCEPT !.users = updateEmailVerified(userID, TRUE),
                               !.mailbox = deleteEmailTwoFactorCode(userID)])

\* user.service.RequestEmailChange and SendEmailChangeVerificationCode: the code
\* is saved without a look at the pending one, and mailed to the new address
\* with the template of the registration mail.  (A user is looked up here by
\* the one identifier the model gives it.)
RequestEmailChange(userID, newEmail, newCode) ==
    IF UserExists(newEmail) THEN Fails(userID, ErrEmailAlreadyExists)
    ELSE Returns(userID, Nil, NoToken, NoToken, <<Email(newEmail, CodeVerifyType, newCode)>>,
                 [Store EXCEPT !.mailbox = [mailbox EXCEPT ![userID] =
                     saveEmailVerificationCode(mailbox[userID], newCode,
                         now + codeLifetimeMinutes * Minute, CodeChangeEmail)]])

\* user.service.ConfirmEmailChange: the address itself is not part of the model.
ConfirmEmailChange(userID, code) ==
    LET stored == getEmailVerificationCode(userID)
        err == IF stored.err # Nil THEN ErrInvalidVerificationCode
               ELSE IF stored.codeType # CodeChangeEmail THEN ErrInvalidVerificationCode
               ELSE IF MailCode(stored.code) # code THEN ErrInvalidVerificationCode
               ELSE IF now > stored.expiresAt THEN ErrVerificationCodeExpired
               ELSE Nil
    IN
    IF err # Nil THEN Fails(userID, err)
    ELSE Returns(userID, Nil, NoToken, NoToken, <<>>,
                 [Store EXCEPT !.mailbox = deleteEmailTwoFactorCode(userID)])

-----------------------------------------------------------------------------
\* The state machine.  The one user has just registered: the account is not
\* yet verified and the verification code is in the mailbox.
Init ==
    /\ users = [u \in Users |->
                 [isActive |-> FALSE, passwordHash |-> hashPassword("pw1"),
                  twoFactorEnabled |-> FALSE, twoFactorMethod |-> "", hashToken |-> 1]]
    /\ mailbox = [u \in Users |->
                   [present |-> TRUE, code |-> "111111", type |-> CodeVerifyType,
                    expiresAt |-> 1 + codeLifetimeMinutes * Minute, createdAt |-> 1]]
    /\ secrets = [u \in Users |-> 0]
    /\ sessions = {}
    /\ issued = {}
    /\ now = 1
    /\ nextSecret = 2
    /\ nextSession = 1
    /\ steps = 0
    /\ res = [op |-> "Register", user |-> "u1", err |-> Nil, first |-> NoToken,
              refresh |-> NoToken, emails |-> <<Email("u1", CodeVerifyType, "111111")>>]
    /\ taskQueue = <<>>
    /\ worker = "receive"
    /\ calls = [r \in Requests |-> Idle]

\* The server answers a request: the store becomes what the handler left, and
\* the client holds what it returned.
Answer(op, out) ==
    /\ steps < MaxSteps
    /\ users' = out.store.users
    /\ mailbox' = out.store.mailbox
    /\ secrets' = out.store.secrets
    /\ sessions' = out.store.sessions
    /\ issued' = out.store.issued
    /\ nextSecret' = out.store.nextSecret
    /\ nextSession' = out.store.nextSession
    /\ res' = [op |-> op, user |-> out.user, err |-> out.err, first |-> out.first,
               refresh |-> out.refresh, emails |-> out.emails]
    /\ steps' = steps + 1
    /\ UNCHANGED <<now, taskQueue, worker, calls>>

\* A request behind JWTAccessTokenMiddleware: its user has logged in, so the
\* account is verified.
Authenticated(userID) == users[userID].isActive

\* The refresh tokens a client may present: those it was handed, or one it made up.
PresentableTokens == {e.token : e \in issued} \cup {ForgedToken(u) : u \in Users}

LoginRequest == \E id \in Identifiers, p \in Passwords, c \in Codes :
    Answer("Login", Login(id, p, c))

VerifyTwoFactorRequest == \E t \in 1..nextSession, c \in CandidateCodes :
    Answer("VerifyTwoFactor", VerifyTwoFactor(t, c))

RegisterTwoFactorRequest == \E u \in Users, m \in Methods, c \in Codes :
    Authenticated(u) /\ Answer("RegisterTwoFactor", RegisterTwoFactor(u, m, c))

RequestEmail2FACodeRequest == \E u \in Users, c \in Codes :
    Authenticated(u) /\ Answer("RequestEmail2FACode", RequestEmail2FACode(u, c))

DisableTwoFactorAuthRequest == \E u \in Users, m \in Methods, c \in CandidateCodes :
    Authenticated(u) /\ Answer("DisableTwoFactorAuth", DisableTwoFactorAuth(u, m, c))

VerifyTwoFactorCodeRequest == \E u \in Users, m \in Methods, c \in CandidateCodes :
    Authenticated(u) /\ Answer("VerifyTwoFactorCode", VerifyTwoFactorCode(u, m, c))

RefreshAccessTokenRequest == \E t \in PresentableTokens :
    Answer("RefreshAccessToken", RefreshAccessToken(t))

RequestPasswordResetRequest == \E id \in Identifiers, c1 \in Codes, c2 \in Codes :
    Answer("RequestPasswordReset", RequestPasswordReset(id, c1, c2))

ResetPasswordRequest == \E id \in Identifiers, c \in CandidateCodes, p \in Passwords :
    Answer("ResetPassword", ResetPassword(id, c, p))

ChangePasswordRequest == \E u \in Users, p1 \in Passwords, p2 \in Passwords :
    Authenticated(u)
        /\ Answer("ChangePasswordWithOldPassword", ChangePasswordWithOldPassword(u, p1, p2))

VerifyRegistrationCodeRequest == \E id \in Identifiers, c \in CandidateCodes :
    Answer("VerifyRegistrationCode", VerifyRegistrationCode(id, c))

RequestEmailChangeRequest == \E u \in Users, e \in NewEmails, c \in Codes :
    Authenticated(u) /\ Answer("RequestEmailChange", RequestEmailChange(u, e, c))

ConfirmEmailChangeRequest == \E u \in Users, c \in CandidateCodes :
    Authenticated(u) /\ Answer("ConfirmEmailChange", ConfirmEmailChange(u, c))

\* The clock advances.
Tick ==
    /\ steps < MaxSteps
    /\ \E d \in TickSteps : now' = now + d
    /\ steps' = steps + 1
    /\ UNCHANGED <<users, mailbox, secrets, sessions, issued, nextSecret, nextSession, res,
                   taskQueue, worker, calls>>

Next ==
    \/ LoginRequest
    \/ VerifyTwoFactorRequest
    \/ RegisterTwoFactorRequest
    \/ RequestEmail2FACodeRequest
    \/ DisableTwoFactorAuthRequest
    \/ VerifyTwoFactorCodeRequest
    \/ RefreshAccessTokenRequest
    \/ RequestPasswordResetRequest
    \/ ResetPasswordRequest
    \/ ChangePasswordRequest
    \/ VerifyRegistrationCodeRequest
    \/ RequestEmailChangeRequest
    \/ ConfirmEmailChangeRequest
    \/ Tick

Spec == Init /\ [][Next]_vars

-----------------------------------------------------------------------------
\* The challenge step on its own, with a clock fine enough for the lifetime of
\* a challenge token.  The user has verified the account and confirmed the
\* time-based method (a state Spec reaches in three requests); from there the
\* user logs in and answers challenges while the clock advances.
SessionTickSteps == {1, defaultSessionTokenDuration - 1}

SessionInit ==
    /\ users = [u \in Users |->
                 [isActive |-> TRUE, passwordHash |-> hashPassword("pw1"),
                  twoFactorEnabled |-> TRUE, twoFactorMethod |-> google2FAAuthMethod,
                  hashToken |-> 1]]
    /\ mailbox = [u \in Users |-> NoRow]
    /\ secrets = [u \in Users |-> 2]
    /\ sessions = {}
    /\ issued = {}
    /\ now = 1
    /\ nextSecret = 3
    /\ nextSession = 1
    /\ steps = 0
    /\ res = [op |-> "VerifyTwoFactorCode", user |-> "u1", err |-> Nil, first |-> NoToken,
              refresh |-> NoToken, emails |-> <<>>]
    /\ taskQueue = <<>>
    /\ worker = "receive"
    /\ calls = [r \in Requests |-> Idle]

SessionTick ==
    /\ steps < MaxSteps
    /\ \E d \in SessionTickSteps : now' = now + d
    /\ steps' = steps + 1
    /\ UNCHANGED <<users, mailbox, secrets, sessions, issued, nextSecret, nextSession, res,
                   taskQueue, worker, calls>>

SessionNext ==
    \/ LoginRequest
    \/ VerifyTwoFactorRequest
    \/ SessionTick

SessionSpec == SessionInit /\ [][SessionNext]_vars

-----------------------------------------------------------------------------
\* The life of the second factor of a user who starts with the time-based
\* method confirmed (SessionInit): logging in, disabling, registering and
\* confirming a method again, changing the password.
TwoFactorNext ==
    \/ LoginRequest
    \/ DisableTwoFactorAuthRequest
    \/ RegisterTwoFactorRequest
    \/ VerifyTwoFactorCodeRequest
    \/ ChangePasswordRequest
    \/ Tick

TwoFactorSpec == SessionInit /\ [][TwoFactorNext]_vars

-----------------------------------------------------------------------------
\* The email hand-off on its own.  The user has confirmed the emailed method
\* (a state Spec reaches in four requests).  Requests for a new login code
\* come in side by side: each saves its code and then sends the task on the
\* channel, and the one worker takes tasks off the channel and delivers them.
\* Nothing says how long a delivery takes.
taskQueueCapacity == 100

\* The code drawn by GenerateVerificationCode in this specification: one value,
\* so that the content of the channel is fixed by its length.
EmailCode == "111111"

EmailInit ==
    /\ users = [u \in Users |->
                 [isActive |-> TRUE, passwordHash |-> hashPassword("pw1"),
                  twoFactorEnabled |-> TRUE, twoFactorMethod |-> email2FAAuthMethod,
                  hashToken |-> 1]]
    /\ mailbox = [u \in Users |-> NoRow]
    /\ secrets = [u \in Users |-> 0]
    /\ sessions = {}
    /\ issued = {}
    /\ now = 1
    /\ nextSecret = 2
    /\ nextSession = 1
    /\ steps = 0
    /\ res = [op |-> "VerifyTwoFactorCode", user |-> "u1", err |-> Nil, first |-> NoToken,
              refresh |-> NoToken, emails |-> <<>>]
    /\ taskQueue = <<>>
    /\ worker = "receive"
    /\ calls = [r \in Requests |-> Idle]

\* RequestEmail2FACode up to the channel send: the checks of the handler, and
\* the rate limit and the save of SendEmailCode.
SendEmailCodeSave(r) ==
    /\ calls[r] = Idle
    /\ \E u \in Users :
         LET out == RequestEmail2FACode(u, EmailCode) IN
         /\ out.err = Nil
         /\ mailbox' = out.store.mailbox
         /\ calls' = [calls EXCEPT ![r] = [pc |-> "QueueEmail", user |-> u,
                                            task |-> out.emails[1]]]
    /\ UNCHANGED <<users, secrets, sessions, issued, now, nextSecret, nextSession, steps,
                   res, taskQueue, worker>>

\* EmailService.QueueEmail: the send on the buffered channel goes through when
\* the buffer has room, and the request returns.
QueueEmail(r) ==
    /\ calls[r].pc = "QueueEmail"
    /\ Len(taskQueue) < taskQueueCapacity
    /\ taskQueue' = Append(taskQueue, calls[r].task)
    /\ calls' = [calls EXCEPT ![r] = Idle]
    /\ res' = [op |-> "RequestEmail2FACode", user |-> calls[r].user, err |-> Nil,
               first |-> NoToken, refresh |-> NoToken, emails |-> <<calls[r].task>>]
    /\ UNCHANGED <<users, mailbox, secrets, sessions, issued, now, nextSecret, nextSession,
                   steps, worker>>

\* EmailService.worker takes the next task off the channel.
WorkerReceive ==
    /\ worker = "receive"
    /\ taskQueue # <<>>
    /\ taskQueue' = Tail(taskQueue)
    /\ worker' = "sendTemplatedEmail"
    /\ UNCHANGED <<users, mailbox, secrets, sessions, issued, now, nextSecret, nextSession,
                   steps, res, calls>>

\* sendTemplatedEmail returns, delivered or not, and the worker loops.
WorkerSent ==
    /\ worker = "sendTemplatedEmail"
    /\ worker' = "receive"
    /\ UNCHANGED <<users, mailbox, secrets, sessions, issued, now, nextSecret, nextSession,
                   steps, res, taskQueue, calls>>

EmailNext ==
    \/ \E r \in Requests : SendEmailCodeSave(r)
    \/ \E r \in Requests : QueueEmail(r)
    \/ WorkerReceive
    \/ WorkerSent

EmailSpec == EmailInit /\ [][EmailNext]_vars

-----------------------------------------------------------------------------
\* The challenge step under concurrent requests.  The user has confirmed the
\* emailed method and has just logged in: the challenge token is stored and the
\* 2fa-type code is in the mailbox.  Each request runs VerifyTwoFactor one
\* store access at a time, with the others' accesses in between; the handler
\* opens no transaction and takes no lock across its accesses.
ConcurrentInit ==
    /\ users = [u \in Users |->
                 [isActive |-> TRUE, passwordHash |-> hashPassword("pw1"),
                  twoFactorEnabled |-> TRUE, twoFactorMethod |-> email2FAAuthMethod,
                  hashToken |-> 1]]
    /\ mailbox = [u \in Users |->
                   [present |-> TRUE, code |-> "111111", type |-> Code2FAType,
                    expiresAt |-> 1 + codeLifetimeMinutes * Minute, createdAt |-> 1]]
    /\ secrets = [u \in Users |-> 0]
    /\ sessions = {[token |-> 1, UserID |-> "u1",
                    ExpiresAt |-> 1 + defaultSessionTokenDuration, CreatedAt |-> 1]}
    /\ issued = {}
    /\ now = 1
    /\ nextSecret = 2
    /\ nextSession = 2
    /\ steps = 0
    /\ res = [op |-> "Login", user |-> "u1", err |-> Nil, first |-> SessionToken(1),
              refresh |-> NoToken, emails |-> <<Email("u1", Code2FAType, "111111")>>]
    /\ taskQueue = <<>>
    /\ worker = "receive"
    /\ calls = [r \in Requests |-> Idle]

\* What a request that has returned holds.
Returned(sessionToken, code, out) ==
    [pc |-> "returned", sessionToken |-> sessionToken, code |-> code, err |-> out.err,
     first |-> out.first, refresh |-> out.refresh]

\* VerifyTwoFactor, first accesses: the challenge token is resolved under the
\* read lock and the user row is read.
VerifyTwoFactorResolve(r) ==
    /\ calls[r] = Idle
    /\ \E t \in 1..nextSession, c \in Codes :
         LET session == VerifySessionToken(t) IN
         calls' = [calls EXCEPT ![r] =
             IF session.err # Nil
             THEN Returned(t, MailCode(c), Fails("", session.err))
             ELSE IF ~users[session.userID].twoFactorEnabled
             THEN Returned(t, MailCode(c), Fails(session.userID, ErrUser2FANotEnabled))
             ELSE IF users[session.userID].twoFactorMethod # email2FAAuthMethod
             THEN Returned(t, MailCode(c), Fails(session.userID, ErrInvalidTwoFactorMethod))
             ELSE [pc |-> "GetEmailVerificationCode", sessionToken |-> t,
                   code |-> MailCode(c), userID |-> session.userID,
                   existingUser |-> users[session.userID]]]
    /\ UNCHANGED <<users, mailbox, secrets, sessions, issued, now, nextSecret, nextSession,
                   steps, res, taskQueue, worker>>

\* VerifyTwoFactor, the SELECT of the mailbox row and the checks on what it read.
VerifyTwoFactorRead(r) ==
    /\ calls[r].pc = "GetEmailVerificationCode"
    /\ LET err == ConsumeTypeFirst(calls[r].userID, calls[r].code, Code2FAType,
                                   ErrInvalidVerificationCode)
       IN calls' = [calls EXCEPT ![r] =
              IF err # Nil
              THEN Returned(calls[r].sessionToken, calls[r].code, Fails(calls[r].userID, err))
              ELSE [calls[r] EXCEPT !.pc = "DeleteEmailTwoFactorCode"]]
    /\ UNCHANGED <<users, mailbox, secrets, sessions, issued, now, nextSecret, nextSession,
                   steps, res, taskQueue, worker>>

\* VerifyTwoFactor, the DELETE of the mailbox row: no error when the row is gone.
VerifyTwoFactorDelete(r) ==
    /\ calls[r].pc = "DeleteEmailTwoFactorCode"
    /\ mailbox' = deleteEmailTwoFactorCode(calls[r].userID)
    /\ calls' = [calls EXCEPT ![r].pc = "GenerateAccessJWT"]
    /\ UNCHANGED <<users, secrets, sessions, issued, now, nextSecret, nextSession, steps,
                   res, taskQueue, worker>>

\* VerifyTwoFactor, the tokens: made from the user row read at the start, and
\* returned.
VerifyTwoFactorIssue(r) ==
    /\ calls[r].pc = "GenerateAccessJWT"
    /\ LET userID == calls[r].userID
           refreshToken == GenerateRefreshJWT(userID, calls[r].existingUser.hashToken,
                                              defaultJWTDuration)
           out == Returns(userID, Nil, GenerateAccessJWT(userID, defaultJWTDuration),
                          refreshToken, <<>>, Store)
       IN /\ issued' = Remember(refreshToken, calls[r].existingUser.hashToken)
          /\ calls' = [calls EXCEPT ![r] = Returned(calls[r].sessionToken, calls[r].code, out)]
          /\ res' = [op |-> "VerifyTwoFactor", user |-> userID, err |-> Nil,
                     first |-> out.first, refresh |-> out.refresh, emails |-> <<>>]
    /\ UNCHANGED <<users, mailbox, secrets, sessions, now, nextSecret, nextSession, steps,
                   taskQueue, worker>>

ConcurrentNext ==
    \/ \E r \in Requests : VerifyTwoFactorResolve(r)
    \/ \E r \in Requests : VerifyTwoFactorRead(r)
    \/ \E r \in Requests : VerifyTwoFactorDelete(r)
    \/ \E r \in Requests : VerifyTwoFactorIssue(r)
    \/ SessionTick

ConcurrentSpec == ConcurrentInit /\ [][ConcurrentNext]_vars

-----------------------------------------------------------------------------
\* The step just taken answered request op for user u without an error.
Succeeded(u, op) ==
    /\ steps' = steps + 1
    /\ now' = now
    /\ res'.op = op
    /\ res'.user = u
    /\ res'.err = Nil

\* The step just taken answered request op.
Answered(op) ==
    /\ steps' = steps + 1
    /\ now' = now
    /\ res'.op = op

\* The rotating secrets drawn so far, and the next one.
SecretsSoFar == 1..nextSecret

-----------------------------------------------------------------------------
\* C1: a refresh token issued by GenerateRefreshJWT while the user's rotating
\* secret was S1, and whose own expiry has not elapsed, is accepted by
\* ValidateRefreshToken against the stored secret S1 and is rejected with
\* ErrInvalidJWTToken (not ErrExpiredJWTToken) against every other secret, the
\* secret the store holds now included.
C1_BindingInvariant ==
    \A e \in issued :
        ~(now > e.token.ExpiresAt) =>
            /\ \A s \in SecretsSoFar :
                   ValidateRefreshToken(e.token, s)
                       = IF s = e.secret THEN Nil ELSE ErrInvalidJWTToken
            /\ ValidateRefreshToken(e.token, users[e.token.UserID].hashToken)
                   = IF users[e.token.UserID].hashToken = e.secret
                     THEN Nil ELSE ErrInvalidJWTToken

\* A token that has not expired is held while the secret it was issued under
\* has been rotated away.
C1_Witness ==
    \E e \in issued :
        /\ ~(now > e.token.ExpiresAt)
        /\ users[e.token.UserID].hashToken # e.secret
        /\ ValidateRefreshToken(e.token, users[e.token.UserID].hashToken) = ErrInvalidJWTToken

-----------------------------------------------------------------------------
\* C2: a successful ChangePasswordWithOldPassword or ResetPassword replaces the
\* user's rotating secret, by a value no refresh token was issued under, in the
\* step that writes the password hash (the hash never changes without the
\* secret changing); a secret once replaced never comes back, and the
\* refresh-token middleware rejects every refresh token issued under a replaced
\* secret, whatever Login, VerifyTwoFactor and RefreshAccessToken calls came
\* before.
C2_PasswordChangeRevokes ==
    [][\A u \in Users :
        /\ (Succeeded(u, "ChangePasswordWithOldPassword") \/ Succeeded(u, "ResetPassword"))
              => /\ users'[u].hashToken # users[u].hashToken
                 /\ \A e \in issued : e.token.UserID = u => e.secret # users'[u].hashToken
                 /\ issued' = issued
        /\ users'[u].passwordHash # users[u].passwordHash
              => users'[u].hashToken # users[u].hashToken
        /\ \A e \in issued :
              (e.token.UserID = u /\ e.secret # users[u].hashToken)
                  => e.secret # users'[u].hashToken
        /\ \A e \in issued' :
              (e.token.UserID = u /\ e.secret # users'[u].hashToken)
                  => (JWTRefreshTokenMiddleware(e.token).err)'
                         \in {ErrInvalidJWTRefreshToken, ErrExpiredJWTToken}
      ]_vars

\* A password change has succeeded while the client holds a refresh token
\* issued before it.
C2_Witness ==
    /\ res.op \in {"ChangePasswordWithOldPassword", "ResetPassword"}
    /\ res.err = Nil
    /\ \E e \in issued :
          /\ e.token.UserID = res.user
          /\ e.secret # users[res.user].hashToken
          /\ ~(now > e.token.ExpiresAt)
          /\ JWTRefreshTokenMiddleware(e.token).err = ErrInvalidJWTRefreshToken

-----------------------------------------------------------------------------
\* C3, as claimed: Login with the correct password for an active user whose
\* two_factor_enabled flag is set never returns an access or a refresh token;
\* when it succeeds it returns a fresh challenge session token, and with the
\* emailed method the mailbox then holds the new code under the type 2fa, with
\* the time-based method no code was issued.  Login returns an access+refresh
\* pair only for a user whose two_factor_enabled flag is not set.
C3_LoginWithTwoFactor ==
    \A id \in Identifiers, p \in Passwords, c \in Codes :
        LET out == Login(id, p, c) IN
        /\ (/\ UserExists(id)
            /\ users[id].isActive
            /\ users[id].twoFactorEnabled
            /\ doPasswordsMatch(users[id].passwordHash, p))
              => /\ out.first.kind # "access"
                 /\ out.refresh = NoToken
                 /\ out.store.issued = issued
                 /\ out.err = Nil
                       => /\ out.first = SessionToken(nextSession)
                          /\ \A s \in sessions : s.token # nextSession
                          /\ out.store.sessions \ sessions
                                = {[token |-> nextSession, UserID |-> id, CreatedAt |-> now,
                                    ExpiresAt |-> now + defaultSessionTokenDuration]}
                          /\ users[id].twoFactorMethod \in Methods
                          /\ users[id].twoFactorMethod = email2FAAuthMethod
                                => /\ out.emails = <<Email(id, Code2FAType, c)>>
                                   /\ out.store.mailbox[id].present
                                   /\ out.store.mailbox[id].code = c
                                   /\ out.store.mailbox[id].type = Code2FAType
                          /\ users[id].twoFactorMethod = google2FAAuthMethod
                                => /\ out.emails = <<>>
                                   /\ out.store.mailbox = mailbox
        /\ (out.first.kind = "access" \/ out.refresh # NoToken)
              => /\ UserExists(id)
                 /\ ~users[id].twoFactorEnabled
                 /\ out.first.kind = "access"
                 /\ out.refresh.kind = "refresh"

-----------------------------------------------------------------------------
\* What the caller of a request can observe of its outcome.
Observable(out) ==
    [err |-> out.err, first |-> out.first, refresh |-> out.refresh, emails |-> out.emails,
     store |-> out.store]

\* C4, as claimed: in every state of the user store, Login with an identifier
\* that matches no user and Login with an existing user's identifier and a wrong
\* password return the same error, ErrInvalidCredentials.
C4_EnumerationResistance ==
    \A u \in Users, p \in Passwords, q \in Passwords, c \in Codes :
        ~doPasswordsMatch(users[u].passwordHash, p)
            => /\ Login(u, p, c).err = ErrInvalidCredentials
               /\ Login(NoSuchUser, q, c).err = Login(u, p, c).err

\* C4, amended: for an existing user whose account is verified (is_active),
\* Login with a wrong password and Login with an identifier that matches no
\* user return ErrInvalidCredentials, no token and no email, and leave the
\* store unchanged, so the caller cannot tell them apart.
C4_ActiveUserEnumerationResistance ==
    \A u \in Users, p \in Passwords, q \in Passwords, c \in Codes :
        (users[u].isActive /\ ~doPasswordsMatch(users[u].passwordHash, p))
            => /\ Login(u, p, c).err = ErrInvalidCredentials
               /\ Observable(Login(NoSuchUser, q, c)) = Observable(Login(u, p, c))
               /\ Login(u, p, c).store = Store

\* A verified user's login with a wrong password was answered.
C4_Witness ==
    /\ res.op = "Login"
    /\ res.user \in Users
    /\ users[res.user].isActive
    /\ res.err = ErrInvalidCredentials

-----------------------------------------------------------------------------
\* The last email a request queued.
LastEmail == res.emails[Len(res.emails)]

\* C5, as claimed: each user has at most one pending code, and once a request
\* has issued a code (queued its email), the user's single mailbox entry holds
\* the newly generated code together with the type tag that was requested.
C5_SingleSlotReplaces ==
    (/\ res.op \in {"Login", "RegisterTwoFactor", "RequestEmail2FACode", "RequestPasswordReset"}
     /\ res.emails # <<>>)
        => /\ mailbox[LastEmail.to].present
           /\ mailbox[LastEmail.to].code = LastEmail.code
           /\ mailbox[LastEmail.to].type = LastEmail.template

-----------------------------------------------------------------------------
\* C6, as claimed: when a 2fa-type code is pending for a user and a
\* password-reset-type code is then issued for the same user, a consumption
\* that expects the type 2fa fails with InvalidCodeType, whatever code is
\* submitted.
C6_ResetCodeDisplacesTwoFactorCode ==
    [][\A u \in Users :
        (/\ mailbox[u].present
         /\ mailbox[u].type = Code2FAType
         /\ Succeeded(u, "RequestPasswordReset")
         /\ res'.emails # <<>>
         /\ res'.emails[Len(res'.emails)].template = CodePassType)
            => \A c \in Codes :
                 /\ (VerifyTwoFactorCode(u, email2FAAuthMethod, MailCode(c)).err)'
                        = InvalidCodeType
                 /\ (ConsumeTypeFirst(u, MailCode(c), Code2FAType, ErrInvalid2FACode))'
                        = InvalidCodeType
                 /\ (ConsumeErrFirst(u, MailCode(c), Code2FAType))' = InvalidCodeType
      ]_vars

-----------------------------------------------------------------------------
\* C7, as claimed: whenever a code is pending for the user, its type differs from
\* the requested type and it was created less than two minutes ago,
\* SendEmailCode fails with ErrTooManyEmailCodeRequests, leaves the pending
\* entry as it is and queues no email, for every pair of distinct stored and
\* requested types.
C7_RateLimit ==
    \A u \in Users, t \in CodeTypes, c \in Codes :
        (/\ mailbox[u].present
         /\ mailbox[u].type # t
         /\ now - mailbox[u].createdAt < 2 * Minute)
            => SendEmailCode(mailbox[u], u, t, c)
                 = [err |-> ErrTooManyEmailCodeRequests, row |-> mailbox[u], emails |-> <<>>]

\* C7, amended: whenever a code of a type other than verify is pending for the
\* user, its type differs from the requested type and it was created less than
\* two minutes ago, SendEmailCode fails with ErrTooManyEmailCodeRequests, leaves
\* the pending entry as it is and queues no email.
C7_RateLimitExceptVerify ==
    \A u \in Users, t \in CodeTypes, c \in Codes :
        (/\ mailbox[u].present
         /\ mailbox[u].type # CodeVerifyType
         /\ mailbox[u].type # t
         /\ now - mailbox[u].createdAt < 2 * Minute)
            => SendEmailCode(mailbox[u], u, t, c)
                 = [err |-> ErrTooManyEmailCodeRequests, row |-> mailbox[u], emails |-> <<>>]

\* A password reset was requested while a 2fa-type code less than two minutes
\* old was pending, and was refused.
C7_Witness ==
    /\ res.op = "RequestPasswordReset"
    /\ res.err = ErrTooManyEmailCodeRequests
    /\ res.emails = <<>>
    /\ mailbox[res.user].present
    /\ mailbox[res.user].type = Code2FAType
    /\ now - mailbox[res.user].createdAt < 2 * Minute

-----------------------------------------------------------------------------
\* The step just taken consumed the mailbox code of user u.
ConsumedMailCode(u) ==
    \/ Succeeded(u, "VerifyTwoFactor") /\ users[u].twoFactorMethod = email2FAAuthMethod
    \/ Succeeded(u, "VerifyTwoFactorCode") /\ users'[u].twoFactorMethod = email2FAAuthMethod
    \/ Succeeded(u, "DisableTwoFactorAuth") /\ users[u].twoFactorMethod = email2FAAuthMethod
    \/ /\ Succeeded(u, "ResetPassword")
       /\ ~users[u].twoFactorEnabled \/ users[u].twoFactorMethod = email2FAAuthMethod

\* Every consuming operation refuses every mailed code for user u.
ResubmissionFails(u) ==
    \A c \in Codes :
        /\ \A t \in 1..nextSession : VerifyTwoFactor(t, MailCode(c)).err # Nil
        /\ \A m \in Methods :
              /\ VerifyTwoFactorCode(u, m, MailCode(c)).err # Nil
              /\ DisableTwoFactorAuth(u, m, MailCode(c)).err # Nil
        /\ \A p \in Passwords : ResetPassword(u, MailCode(c), p).err # Nil

\* C8: a step in which VerifyTwoFactor, VerifyTwoFactorCode or
\* DisableTwoFactorAuth on the emailed method, or ResetPassword on a mailbox
\* code, succeeds leaves the user without a mailbox entry; while the user has no
\* mailbox entry every consuming operation refuses every mailed code, the one
\* just consumed included; and an entry appears again only in a step that
\* issues a code (queues its email).
C8_SingleUse ==
    [][\A u \in Users :
        /\ ConsumedMailCode(u) => ~mailbox'[u].present
        /\ ~mailbox'[u].present => ResubmissionFails(u)'
        /\ (~mailbox[u].present /\ mailbox'[u].present)
              => (steps' = steps + 1 /\ now' = now /\ res'.emails # <<>>)
      ]_vars

\* VerifyTwoFactor has consumed the mailed code of a user with emailed
\* two-factor authentication.
C8_Witness ==
    /\ res.op = "VerifyTwoFactor"
    /\ res.err = Nil
    /\ users[res.user].twoFactorMethod = email2FAAuthMethod
    /\ ~mailbox[res.user].present
    /\ ResubmissionFails(res.user)

-----------------------------------------------------------------------------
\* C9, as claimed: when a user with emailed two-factor authentication logs in
\* with the correct password, Login returns a challenge token and no tokens,
\* and VerifyTwoFactor with that challenge token and the mailed code returns an
\* access+refresh pair; when VerifyTwoFactor has accepted a mailed code, the
\* same code with the same challenge token is then refused with
\* ErrInvalidVerificationCode or ErrVerificationCodeExpired.
C9_EmailedTwoFactorScenario ==
    [][\A u \in Users, c \in Codes :
        /\ \A issuedNow \in {nextSession} :
              (/\ Succeeded(u, "Login")
               /\ users[u].twoFactorEnabled
               /\ users[u].twoFactorMethod = email2FAAuthMethod
               /\ res'.emails = <<Email(u, Code2FAType, c)>>)
                 => /\ res'.first = SessionToken(issuedNow)
                    /\ res'.refresh = NoToken
                    /\ (VerifyTwoFactor(issuedNow, MailCode(c)).err)' = Nil
                    /\ (VerifyTwoFactor(issuedNow, MailCode(c)).first.kind)' = "access"
                    /\ (VerifyTwoFactor(issuedNow, MailCode(c)).refresh.kind)' = "refresh"
        /\ \A t \in 1..nextSession :
              (/\ Succeeded(u, "VerifyTwoFactor")
               /\ users[u].twoFactorMethod = email2FAAuthMethod
               /\ VerifyTwoFactor(t, MailCode(c)).err = Nil
               /\ VerifyTwoFactor(t, MailCode(c)).store = Store')
                 => (VerifyTwoFactor(t, MailCode(c)).err)'
                        \in {ErrInvalidVerificationCode, ErrVerificationCodeExpired}
      ]_vars

-----------------------------------------------------------------------------
\* C10, as claimed: in every consuming operation a matching mailbox code of the
\* right type is refused with ErrVerificationCodeExpired whenever
\* now >= expiresAt.
C10_ExpiryBoundary ==
    \A u \in Users, p \in Passwords :
        LET code == MailCode(mailbox[u].code) IN
        (mailbox[u].present /\ now >= mailbox[u].expiresAt)
            => /\ (~users[u].isActive /\ mailbox[u].type = CodeVerifyType)
                     => VerifyRegistrationCode(u, code).err = ErrVerificationCodeExpired
               /\ (/\ users[u].isActive
                   /\ ~users[u].twoFactorEnabled
                   /\ mailbox[u].type = Code2FAType)
                     => VerifyTwoFactorCode(u, email2FAAuthMethod, code).err
                            = ErrVerificationCodeExpired
               /\ (/\ users[u].twoFactorEnabled
                   /\ users[u].twoFactorMethod = email2FAAuthMethod
                   /\ mailbox[u].type = Code2FAType)
                     => /\ DisableTwoFactorAuth(u, email2FAAuthMethod, code).err
                              = ErrVerificationCodeExpired
                        /\ ResetPassword(u, code, p).err = ErrVerificationCodeExpired
                        /\ \A s \in sessions :
                              (s.UserID = u /\ ~(now > s.ExpiresAt))
                                  => VerifyTwoFactor(s.token, code).err
                                         = ErrVerificationCodeExpired
               /\ (~users[u].twoFactorEnabled /\ mailbox[u].type = CodePassType)
                     => ResetPassword(u, code, p).err = ErrVerificationCodeExpired

-----------------------------------------------------------------------------
\* C11: a challenge token issued by GenerateSessionToken with expiry expiresAt
\* resolves to the user it was issued for at now = expiresAt - 1, and is
\* answered ErrExpiredSessionToken at now = expiresAt + 1; that error is not
\* the ErrInvalidSessionToken a token never issued is answered with.
C11_ChallengeTTL ==
    /\ VerifySessionToken(nextSession).err = ErrInvalidSessionToken
    /\ \A s \in sessions :
           /\ s.ExpiresAt = s.CreatedAt + defaultSessionTokenDuration
           /\ now = s.ExpiresAt - 1
                 => VerifySessionToken(s.token) = [userID |-> s.UserID, err |-> Nil]
           /\ now = s.ExpiresAt + 1
                 => /\ VerifySessionToken(s.token).err = ErrExpiredSessionToken
                    /\ VerifySessionToken(s.token).err # VerifySessionToken(nextSession).err

\* One challenge token is a second from its expiry and another a second past
\* it, and the challenge just answered was refused as expired.
C11_Witness ==
    /\ \E s \in sessions : now = s.ExpiresAt - 1
    /\ \E s \in sessions : now = s.ExpiresAt + 1
    /\ res.op = "VerifyTwoFactor"
    /\ res.err = ErrExpiredSessionToken

-----------------------------------------------------------------------------
\* Code c proves method m for user u now: it is the pending 2fa-type mailbox
\* code, not past its expiry (emailed method), or a code of the stored secret
\* (time-based method).
ValidProof(u, m, c) ==
    \/ /\ m = email2FAAuthMethod
       /\ mailbox[u].present
       /\ mailbox[u].type = Code2FAType
       /\ c = MailCode(mailbox[u].code)
       /\ ~(now > mailbox[u].expiresAt)
    \/ /\ m = google2FAAuthMethod
       /\ secrets[u] # 0
       /\ VerifyCode(secrets[u], c)

\* Code c is a valid second factor of user u now: u has two-factor
\* authentication enabled and c proves the stored method.
ValidSecondFactor(u, c) ==
    /\ users[u].twoFactorEnabled
    /\ ValidProof(u, users[u].twoFactorMethod, c)

\* The answer is an access token and a refresh token of user u.
IsTokenPair(out, u) ==
    /\ out.err = Nil
    /\ out.first.kind = "access" /\ out.first.UserID = u
    /\ out.refresh.kind = "refresh" /\ out.refresh.UserID = u

\* Every unexpired challenge token in the store, presented with a valid second
\* factor of its user, is answered with a token pair.
ChallengesUsable ==
    \A s \in sessions, c \in CandidateCodes :
        (~(now > s.ExpiresAt) /\ ValidSecondFactor(s.UserID, c))
            => IsTokenPair(VerifyTwoFactor(s.token, c), s.UserID)

\* C12: answering a challenge never deletes it.  A step of VerifyTwoFactor,
\* failed or not, leaves the session store as it was, and every unexpired
\* challenge token, used before or not, yields a token pair when it is
\* presented with a valid second-factor code.
C12_ChallengeNotRevoked ==
    /\ []ChallengesUsable
    /\ [][Answered("VerifyTwoFactor")
             => (sessions' = sessions /\ ChallengesUsable')]_vars

\* A challenge has just been answered with a token pair, and the same token
\* with a valid code would be answered with a token pair again.
C12_Witness ==
    /\ res.op = "VerifyTwoFactor"
    /\ res.err = Nil
    /\ \E s \in sessions, c \in CandidateCodes :
           /\ s.UserID = res.user
           /\ ~(now > s.ExpiresAt)
           /\ ValidSecondFactor(s.UserID, c)
           /\ IsTokenPair(VerifyTwoFactor(s.token, c), s.UserID)

-----------------------------------------------------------------------------
\* C13: VerifyTwoFactor answers with a token pair only if the challenge token
\* resolves to a user, that user has two-factor authentication enabled now,
\* and the code is valid for the user's stored method; the pair is issued for
\* the user the token is bound to, the refresh token under that user's
\* rotating secret.  Every failure issues nothing, and a resolved token of a
\* user whose two-factor authentication is no longer enabled is answered
\* ErrUser2FANotEnabled with the store left as it was.
C13_VerifyTwoFactorConditions ==
    \A t \in 1..nextSession, c \in CandidateCodes :
        LET out == VerifyTwoFactor(t, c)
            resolved == VerifySessionToken(t)
            u == resolved.userID
        IN
        /\ out.err = Nil
              => /\ resolved.err = Nil
                 /\ ValidSecondFactor(u, c)
                 /\ IsTokenPair(out, u)
                 /\ out.user = u
                 /\ out.refresh.CusKey = generateCustomKey(u, users[u].hashToken)
        /\ out.err # Nil
              => /\ out.first = NoToken
                 /\ out.refresh = NoToken
                 /\ out.store = Store
        /\ (resolved.err = Nil /\ ~users[u].twoFactorEnabled)
              => out.err = ErrUser2FANotEnabled

\* Two-factor authentication was disabled while a challenge token was
\* pending, and the challenge has just been refused.
C13_Witness ==
    /\ res.op = "VerifyTwoFactor"
    /\ res.err = ErrUser2FANotEnabled
    /\ res.first = NoToken
    /\ \E s \in sessions : ~(now > s.ExpiresAt) /\ ~users[s.UserID].twoFactorEnabled

-----------------------------------------------------------------------------
\* C14, as claimed: a step of RegisterTwoFactor leaves two_factor_enabled and
\* two_factor_method as they were.  For a user with two-factor authentication
\* enabled it is answered ErrUser2FAAlreadyEnabled and leaves mailbox and
\* secret alone.  For a user without, a successful step either stores a
\* 2fa-type code, the one it mails, and leaves the secret alone (emailed), or
\* stores a new secret and leaves the mailbox alone (time-based), and the
\* user still logs in with the password alone.
C14_RegisterTwoFactorFrame ==
    [][Answered("RegisterTwoFactor")
        => \A u \in {res'.user} :
             /\ users' = users
             /\ users[u].twoFactorEnabled
                   => /\ res'.err = ErrUser2FAAlreadyEnabled
                      /\ mailbox' = mailbox
                      /\ secrets' = secrets
             /\ (~users[u].twoFactorEnabled /\ res'.err = Nil)
                   => /\ \/ /\ res'.emails # <<>>
                            /\ secrets' = secrets
                            /\ mailbox'[u].present
                            /\ mailbox'[u].type = Code2FAType
                            /\ res'.emails = <<Email(u, Code2FAType, mailbox'[u].code)>>
                         \/ /\ res'.emails = <<>>
                            /\ mailbox' = mailbox
                            /\ secrets'[u] = nextSecret
                      /\ \A p \in Passwords, c \in Codes :
                            doPasswordsMatch(users[u].passwordHash, p)
                                => (IsTokenPair(Login(u, p, c), u))'
      ]_vars

-----------------------------------------------------------------------------
\* VerifyTwoFactorCode succeeds only for a user without two-factor
\* authentication and a code that proves the method named, and then the users
\* row carries the flag and that method; a failing call leaves the row alone.
EnablesOnlyOnProof ==
    \A u \in Users, m \in Methods, c \in CandidateCodes :
        LET out == VerifyTwoFactorCode(u, m, c) IN
        /\ out.err = Nil
              => /\ ~users[u].twoFactorEnabled
                 /\ ValidProof(u, m, c)
                 /\ out.store.users[u].twoFactorEnabled
                 /\ out.store.users[u].twoFactorMethod = m
        /\ out.err # Nil => out.store.users = users

\* C15: two_factor_enabled goes from false to true only in a step that
\* answers VerifyTwoFactorCode without an error; such a call needs a matching
\* 2fa-type mailbox code not past its expiry (emailed) or a TOTP code of the
\* stored secret (time-based) and sets two_factor_method to the method it
\* names, and a failing call leaves both fields as they were.
C15_EnabledOnlyByVerifyTwoFactorCode ==
    /\ []EnablesOnlyOnProof
    /\ [][\A u \in Users :
             (~users[u].twoFactorEnabled /\ users'[u].twoFactorEnabled)
                 => /\ Succeeded(u, "VerifyTwoFactorCode")
                    /\ \E c \in CandidateCodes :
                          ValidProof(u, users'[u].twoFactorMethod, c)
          ]_vars

\* The emailed method has just been confirmed: the flag is set, the method is
\* stored, and the code is gone.
C15_Witness ==
    /\ res.op = "VerifyTwoFactorCode"
    /\ res.err = Nil
    /\ users[res.user].twoFactorEnabled
    /\ users[res.user].twoFactorMethod = email2FAAuthMethod
    /\ ~mailbox[res.user].present

-----------------------------------------------------------------------------
\* DisableTwoFactorAuth succeeds only for the enabled method and a code that
\* proves it, and then the flag is cleared; a failing call leaves the users
\* row and the stored secret alone.
DisablesOnlyOnProof ==
    \A u \in Users, m \in Methods, c \in CandidateCodes :
        LET out == DisableTwoFactorAuth(u, m, c) IN
        /\ out.err = Nil
              => /\ users[u].twoFactorEnabled
                 /\ m = users[u].twoFactorMethod
                 /\ ValidProof(u, m, c)
                 /\ ~out.store.users[u].twoFactorEnabled
        /\ out.err # Nil
              => /\ out.store.users = users
                 /\ out.store.secrets = secrets
        /\ (users[u].twoFactorEnabled /\ m # users[u].twoFactorMethod)
              => out.err = ErrInvalidTwoFactorMethod

\* C16: DisableTwoFactorAuth(userID, method, code) clears two_factor_enabled
\* only when method is the user's enabled method and the code is a valid
\* proof of it; a request that names another method, or carries an invalid,
\* expired or wrong-type code, fails and leaves two_factor_enabled,
\* two_factor_method and the stored secret as they were.  The flag is
\* cleared in no other step.
C16_DisableNeedsProofOfEnabledMethod ==
    /\ []DisablesOnlyOnProof
    /\ [][\A u \in Users :
             (users[u].twoFactorEnabled /\ ~users'[u].twoFactorEnabled)
                 => /\ Succeeded(u, "DisableTwoFactorAuth")
                    /\ \E c \in CandidateCodes :
                          ValidProof(u, users[u].twoFactorMethod, c)
          ]_vars

\* A request to disable has just been refused for naming the method that is
\* not the enabled one, though a valid proof of the enabled method was at
\* hand; the flag is still set.
C16_Witness ==
    /\ res.op = "DisableTwoFactorAuth"
    /\ res.err = ErrInvalidTwoFactorMethod
    /\ users[res.user].twoFactorEnabled
    /\ \E c \in CandidateCodes : ValidSecondFactor(res.user, c)

-----------------------------------------------------------------------------
\* Every Login of user u with the correct password is answered with a token
\* pair and no challenge token.
LogsInDirectly(u) ==
    \A p \in Passwords, c \in Codes :
        doPasswordsMatch(users[u].passwordHash, p)
            => /\ IsTokenPair(Login(u, p, c), u)
               /\ Login(u, p, c).store.sessions = sessions

\* A step in which user u disables the time-based method with a valid code
\* leaves the flag cleared and no stored secret.
TotpDisableClears ==
    \A u \in Users :
        (Succeeded(u, "DisableTwoFactorAuth")
            /\ users[u].twoFactorMethod = google2FAAuthMethod)
            => /\ ~users'[u].twoFactorEnabled
               /\ secrets'[u] = 0
               /\ LogsInDirectly(u)'

\* C17, as claimed: once a user with time-based two-factor authentication has
\* disabled it with a valid current TOTP code, two_factor_enabled is false,
\* the stored secret is deleted, and every Login with the correct password
\* from then on is answered with a token pair and no challenge token.  (In
\* TwoFactorSpec the secret the user starts with is 2 and is never drawn
\* again, so the user has disabled the time-based method at some time exactly
\* when the stored secret is another.)
C17_DirectLoginEverAfter ==
    /\ [][TotpDisableClears]_vars
    /\ [](\A u \in Users : secrets[u] # 2 => LogsInDirectly(u))

\* C17, amended: the same, with every Login from then on answered directly
\* until a VerifyTwoFactorCode succeeds and enables two-factor authentication
\* again; no other step ends it.
C17_DirectLoginUntilEnabledAgain ==
    /\ [][TotpDisableClears]_vars
    /\ [](\A u \in Users :
            (secrets[u] # 2 /\ ~users[u].twoFactorEnabled) => LogsInDirectly(u))
    /\ [][\A u \in Users :
             (secrets[u] # 2 /\ LogsInDirectly(u) /\ ~LogsInDirectly(u)')
                 => Succeeded(u, "VerifyTwoFactorCode")]_vars

\* The time-based method has been disabled, and the user has just logged in
\* with the password alone.
C17_Witness ==
    /\ res.op = "Login"
    /\ res.err = Nil
    /\ res.first.kind = "access"
    /\ res.refresh.kind = "refresh"
    /\ secrets[res.user] = 0
    /\ ~users[res.user].twoFactorEnabled

-----------------------------------------------------------------------------
\* The refresh middleware lets token through as user u.
MiddlewareAccepts(token, u) == JWTRefreshTokenMiddleware(token) = [userID |-> u, err |-> Nil]

\* RefreshAccessToken answers exactly the tokens the middleware accepts, with
\* an access token and a refresh token of the same user made now, each with
\* its full lifetime, the refresh token tagged under the stored rotating
\* secret and accepted by the middleware in its turn.
RefreshIssuesNewPair ==
    \A t \in PresentableTokens :
        LET out == RefreshAccessToken(t)
            u == t.UserID
        IN
        /\ out.err = Nil <=> MiddlewareAccepts(t, u)
        /\ out.err = Nil
              => /\ IsTokenPair(out, u)
                 /\ out.user = u
                 /\ out.first.IssuedAt = now
                 /\ out.first.ExpiresAt = now + defaultJWTDuration
                 /\ out.refresh.IssuedAt = now
                 /\ out.refresh.ExpiresAt = now + defaultJWTRefreshDuration
                 /\ out.refresh.CusKey = generateCustomKey(u, users[u].hashToken)
                 /\ MiddlewareAccepts(out.refresh, u)
                 /\ out.store.users = users
        /\ out.err # Nil => (out.first = NoToken /\ out.refresh = NoToken)

\* C18: RefreshAccessToken, reached only with a refresh token the middleware
\* accepted, issues a new access token and a new refresh token for the same
\* user; the new refresh token is bound to the user's current rotating secret
\* and is accepted by the middleware for as long as that secret is the stored
\* one (and the token has not expired).
C18_RefreshIssuesAcceptedPair ==
    /\ []RefreshIssuesNewPair
    /\ [][\A u \in Users :
             Succeeded(u, "RefreshAccessToken")
                 => /\ users' = users
                    /\ res'.refresh.IssuedAt = now
                    /\ res'.refresh \in {e.token : e \in issued'}
                    /\ (MiddlewareAccepts(res.refresh, u))'
          ]_vars
    /\ [](\A e \in issued :
            (/\ e.token.ExpiresAt = e.token.IssuedAt + defaultJWTRefreshDuration
             /\ e.secret = users[e.token.UserID].hashToken
             /\ ~(now > e.token.ExpiresAt))
                => MiddlewareAccepts(e.token, e.token.UserID))

\* A refresh token issued earlier has just been exchanged: the client holds
\* the old and the new one, and the middleware accepts the new one.
C18_Witness ==
    /\ res.op = "RefreshAccessToken"
    /\ res.err = Nil
    /\ res.refresh.IssuedAt = now
    /\ \E e \in issued : e.token.IssuedAt < now /\ e.token.UserID = res.user
    /\ MiddlewareAccepts(res.refresh, res.user)

-----------------------------------------------------------------------------
\* C19: Login for an existing user whose account is not verified stores and
\* mails a new verify-type code and is answered ErrUserNotVerified, whatever
\* the password and whatever the mailbox holds; it returns no challenge token
\* and no tokens, and opens no challenge session.
C19_LoginNotVerified ==
    \A u \in Users, p \in Passwords, c \in Codes :
        ~users[u].isActive
            => LET out == Login(u, p, c) IN
               /\ out.err = ErrUserNotVerified
               /\ out.first = NoToken
               /\ out.refresh = NoToken
               /\ out.emails = <<Email(u, CodeVerifyType, c)>>
               /\ out.store.mailbox[u] =
                      [present |-> TRUE, code |-> c, type |-> CodeVerifyType,
                       expiresAt |-> now + codeLifetimeMinutes * Minute, createdAt |-> now]
               /\ out.store.sessions = sessions
               /\ out.store.issued = issued
               /\ out.store.users = users

\* Some time after registration a login for the unverified account has just
\* been refused as not verified, with a new verify-type code stored in place
\* of the pending one and mailed.
C19_Witness ==
    /\ res.op = "Login"
    /\ res.err = ErrUserNotVerified
    /\ ~users[res.user].isActive
    /\ now > 1
    /\ mailbox[res.user].createdAt = now
    /\ mailbox[res.user].type = CodeVerifyType
    /\ res.emails = <<Email(res.user, CodeVerifyType, mailbox[res.user].code)>>

-----------------------------------------------------------------------------
\* C20: ResetPassword for a user with two-factor authentication succeeds only
\* on proof of the enabled method: a TOTP code of the stored secret, the
\* mailbox left alone (time-based), or the matching 2fa-type mailbox code, not
\* past its expiry (emailed).  A password-type code is accepted only for a
\* user without two-factor authentication.  On success the hash of the new
\* password is stored and the rotating secret is replaced by a new one; on
\* every failure the users row is left as it was.
C20_ResetNeedsSecondFactor ==
    \A u \in Users, c \in CandidateCodes, p \in Passwords :
        LET out == ResetPassword(u, c, p)
            row == mailbox[u]
        IN
        /\ (out.err = Nil /\ users[u].twoFactorEnabled)
              => /\ ValidSecondFactor(u, c)
                 /\ users[u].twoFactorMethod = google2FAAuthMethod
                       => out.store.mailbox = mailbox
        /\ (out.err = Nil /\ ~users[u].twoFactorEnabled)
              => /\ row.present
                 /\ row.type = CodePassType
                 /\ c = MailCode(row.code)
                 /\ ~(now > row.expiresAt)
        /\ (users[u].twoFactorEnabled /\ row.present /\ row.type = CodePassType)
              => ResetPassword(u, MailCode(row.code), p).err # Nil
        /\ out.err = Nil
              => /\ out.store.users[u].passwordHash = hashPassword(p)
                 /\ out.store.users[u].hashToken \notin SecretsSoFar \ {nextSecret}
                 /\ out.store.users[u].hashToken # users[u].hashToken
        /\ out.err # Nil => out.store.users = users

\* A user with two-factor authentication has just reset the password: the
\* rotating secret is the one drawn last.
C20_Witness ==
    /\ res.op = "ResetPassword"
    /\ res.err = Nil
    /\ users[res.user].twoFactorEnabled
    /\ users[res.user].hashToken = nextSecret - 1

-----------------------------------------------------------------------------
\* C21, as claimed: RequestPasswordReset for a user with the emailed method
\* issues a 2fa-type code and then, in the same call, a password-type code
\* that takes its place: the call mails both, and when it returns the pending
\* code is the password-type one, the second mailed.
C21_ResetCodeOverwritesTwoFactorCode ==
    [][\A u \in Users :
         (/\ Answered("RequestPasswordReset")
          /\ res'.user = u
          /\ users[u].twoFactorEnabled
          /\ users[u].twoFactorMethod = email2FAAuthMethod)
             => /\ Len(res'.emails) = 2
                /\ res'.emails[1].template = Code2FAType
                /\ res'.emails[2].template = CodePassType
                /\ mailbox'[u].present
                /\ mailbox'[u].type = CodePassType
                /\ mailbox'[u].code = res'.emails[2].code
      ]_vars

\* The operation refused a code because the rate limit of SendEmailCode held
\* on the row it found.
IssuanceRefused(u, codeType) == TooManyRequests(mailbox[u], codeType)

\* C22, as claimed: when code issuance fails with ErrTooManyEmailCodeRequests
\* inside Login, RegisterTwoFactor, RequestEmail2FACode or RequestPasswordReset,
\* the operation returns ErrTooManyEmailCodeRequests and not ErrInternalError.
C22_TooManyRequestsReachesCaller ==
    \A u \in Users, c \in Codes, d \in Codes, pw \in Passwords :
      /\ (/\ users[u].isActive
          /\ doPasswordsMatch(users[u].passwordHash, pw)
          /\ users[u].twoFactorEnabled
          /\ users[u].twoFactorMethod = email2FAAuthMethod
          /\ IssuanceRefused(u, Code2FAType))
             => Login(u, pw, c).err = ErrTooManyEmailCodeRequests
      /\ (/\ ~users[u].twoFactorEnabled
          /\ IssuanceRefused(u, Code2FAType))
             => RegisterTwoFactor(u, email2FAAuthMethod, c).err = ErrTooManyEmailCodeRequests
      /\ (/\ users[u].twoFactorEnabled
          /\ users[u].twoFactorMethod = email2FAAuthMethod
          /\ IssuanceRefused(u, Code2FAType))
             => RequestEmail2FACode(u, c).err = ErrTooManyEmailCodeRequests
      /\ (/\ ~users[u].twoFactorEnabled
          /\ IssuanceRefused(u, CodePassType))
             => RequestPasswordReset(u, c, d).err = ErrTooManyEmailCodeRequests

\* C23, as claimed: QueueEmail never blocks the request, however many emails
\* are queued and however slow the worker is: a request that has reached the
\* channel send finds room in the buffer.
C23_QueueEmailNeverBlocks ==
    \A r \in Requests : calls[r].pc = "QueueEmail" => Len(taskQueue) < taskQueueCapacity

\* The period the sweep of the session store is documented to run at.
cleanupInterval == 1 * Minute

\* C24, as claimed: the session store is swept periodically, so a challenge
\* token that has expired is removed from SessionManager.tokens: no entry is
\* still stored a full sweep period after its expiry.
C24_ExpiredSessionsSwept ==
    \A s \in sessions : now <= s.ExpiresAt + cleanupInterval

\* C25, as claimed: a refresh token returned by any flow lasts
\* defaultJWTRefreshDuration (720 hours) from its issuance and expires
\* strictly after the access token returned with it.
C25_RefreshTokenLifetime ==
    res.refresh # NoToken
        => /\ res.refresh.ExpiresAt = res.refresh.IssuedAt + defaultJWTRefreshDuration
           /\ res.refresh.ExpiresAt > res.first.ExpiresAt

\* The error a consumption gives on pending row `row` follows the order type,
\* code string, expiry.
ChecksInOrder(err, row, expectedType, code, invalidErr) ==
    /\ row.type # expectedType => err = InvalidCodeType
    /\ (row.type = expectedType /\ MailCode(row.code) # code) => err = invalidErr
    /\ (row.type = expectedType /\ MailCode(row.code) = code /\ now > row.expiresAt)
           => err = ErrVerificationCodeExpired

\* C26: wherever VerifyTwoFactor, VerifyTwoFactorCode, DisableTwoFactorAuth or
\* ResetPassword consumes a pending mailbox code, the checks come in the order
\* type (InvalidCodeType), code string (the flow's invalid-code error), expiry
\* (ErrVerificationCodeExpired): a pending code of the wrong type gives
\* InvalidCodeType whatever is submitted, and an expired code of the right
\* type submitted with a wrong string gives the invalid-code error.
C26_ConsumptionOrder ==
    \A u \in Users, c \in CandidateCodes, p \in Passwords :
      mailbox[u].present =>
        /\ \A s \in sessions :
              (/\ VerifySessionToken(s.token) = [userID |-> u, err |-> Nil]
               /\ users[u].twoFactorEnabled
               /\ users[u].twoFactorMethod = email2FAAuthMethod)
                  => ChecksInOrder(VerifyTwoFactor(s.token, c).err, mailbox[u], Code2FAType,
                                   c, ErrInvalidVerificationCode)
        /\ ~users[u].twoFactorEnabled
              => /\ ChecksInOrder(VerifyTwoFactorCode(u, email2FAAuthMethod, c).err,
                                  mailbox[u], Code2FAType, c, ErrInvalid2FACode)
                 /\ ChecksInOrder(ResetPassword(u, c, p).err, mailbox[u], CodePassType, c,
                                  ErrInvalid2FACode)
        /\ (users[u].twoFactorEnabled /\ users[u].twoFactorMethod = email2FAAuthMethod)
              => /\ ChecksInOrder(DisableTwoFactorAuth(u, email2FAAuthMethod, c).err,
                                  mailbox[u], Code2FAType, c, ErrInvalid2FACode)
                 /\ ChecksInOrder(ResetPassword(u, c, p).err, mailbox[u], Code2FAType, c,
                                  ErrInvalid2FACode)

\* A password reset was just refused for its code string although the pending
\* password-type code had already expired.
C26_Witness ==
    /\ res.op = "ResetPassword"
    /\ res.err = ErrInvalid2FACode
    /\ \E u \in Users :
         /\ res.user = u
         /\ mailbox[u].present
         /\ mailbox[u].type = CodePassType
         /\ now > mailbox[u].expiresAt

\* The step just taken changed a password: ChangePasswordWithOldPassword or
\* ResetPassword answered without an error.
PasswordChanged ==
    \E op \in {"ChangePasswordWithOldPassword", "ResetPassword"} :
        Answered(op) /\ res'.err = Nil

\* C27: a refresh token the middleware accepts is accepted after any step that
\* is not a password change, for as long as it has not expired: after
\* RefreshAccessToken has issued a new pair the presented token and every other
\* token under the same rotating secret still pass, and no other operation
\* revokes them.
C27_RevokedOnlyByRotation ==
    [][\A e \in issued :
         (/\ MiddlewareAccepts(e.token, e.token.UserID)
          /\ ~(now' > e.token.ExpiresAt)
          /\ ~PasswordChanged)
             => (MiddlewareAccepts(e.token, e.token.UserID))'
      ]_vars

\* A refresh token was just exchanged for a new pair, and the older refresh
\* token is accepted still.
C27_Witness ==
    /\ res.op = "RefreshAccessToken"
    /\ res.err = Nil
    /\ \E e \in issued :
         /\ e.token # res.refresh
         /\ e.token.UserID = res.user
         /\ e.token.IssuedAt < res.refresh.IssuedAt
         /\ MiddlewareAccepts(e.token, res.user)

\* C28, as claimed: of two VerifyTwoFactor calls in flight with the same
\* challenge token and the same code, at most one returns an access and
\* refresh pair.
C28_OneCodeOneSuccess ==
    \A r1 \in Requests, r2 \in Requests :
        (/\ r1 # r2
         /\ calls[r1].pc = "returned"
         /\ calls[r2].pc = "returned"
         /\ calls[r1].sessionToken = calls[r2].sessionToken
         /\ calls[r1].code = calls[r2].code)
            => ~(calls[r1].err = Nil /\ calls[r2].err = Nil)

\* The errors a code is rejected with: wrong type, wrong string, expired.
CodeRejections ==
    {InvalidCodeType, ErrInvalidVerificationCode, ErrInvalid2FACode, ErrVerificationCodeExpired}

\* The request was refused and left everything as it was.
LeavesAllAsItWas(out) ==
    /\ out.store = Store
    /\ out.first = NoToken
    /\ out.refresh = NoToken
    /\ out.emails = <<>>

\* C29: when VerifyTwoFactor, VerifyTwoFactorCode, DisableTwoFactorAuth or
\* ResetPassword rejects a code (wrong type, wrong string or expired), the
\* mailbox, the 2FA flags, the password hash, the rotating secret and the
\* session store are as before, whatever was submitted and however many
\* guesses went before: a code that was valid before the guess is valid after.
C29_FailedConsumptionFrame ==
    /\ \A u \in Users, m \in Methods, c \in CandidateCodes, p \in Passwords,
          t \in 1..nextSession :
          \A out \in {VerifyTwoFactor(t, c), VerifyTwoFactorCode(u, m, c),
                      DisableTwoFactorAuth(u, m, c), ResetPassword(u, c, p)} :
              out.err \in CodeRejections => LeavesAllAsItWas(out)
    /\ (/\ res.op \in {"VerifyTwoFactor", "VerifyTwoFactorCode", "DisableTwoFactorAuth",
                        "ResetPassword"}
        /\ res.err \in CodeRejections)
           => res.first = NoToken /\ res.refresh = NoToken /\ res.emails = <<>>

\* A wrong guess at the challenge step was just refused, and the mailed code
\* still opens the same challenge.
C29_Witness ==
    /\ res.op = "VerifyTwoFactor"
    /\ res.err = ErrInvalidVerificationCode
    /\ \E s \in sessions, c \in Codes :
         /\ s.UserID = res.user
         /\ users[s.UserID].twoFactorMethod = email2FAAuthMethod
         /\ mailbox[s.UserID].code = c
         /\ IsTokenPair(VerifyTwoFactor(s.token, MailCode(c)), s.UserID)

\* C30: a user with two_factor_enabled set and the time-based method stored
\* has a row in user_two_factor_secrets, so GetTwoFactorSecret finds it and
\* VerifyTwoFactor for that user either succeeds or refuses the code as
\* invalid: it never fails for the lack of a secret.
C30_TotpEnabledHasSecret ==
    \A u \in Users :
        (users[u].twoFactorEnabled /\ users[u].twoFactorMethod = google2FAAuthMethod)
            => /\ secrets[u] # 0
               /\ GetTwoFactorSecret(u).err = Nil
               /\ \A s \in sessions, c \in CandidateCodes :
                     VerifySessionToken(s.token) = [userID |-> u, err |-> Nil]
                         => VerifyTwoFactor(s.token, c).err \in {Nil, ErrInvalid2FACode}

\* A user with the time-based method has just answered a challenge with a
\* code of the stored secret.
C30_Witness ==
    /\ res.op = "VerifyTwoFactor"
    /\ res.err = Nil
    /\ \E u \in Users :
         /\ res.user = u
         /\ users[u].twoFactorEnabled
         /\ users[u].twoFactorMethod = google2FAAuthMethod
         /\ secrets[u] # 0

====
